---- MODULE Spec2Model ----
(***************************************************************************)
(* Model of the workflows of the Pica/Mastra project assistant.            *)
(*                                                                         *)
(* The document-research workflow                                          *)
(* (src/mastra/workflows/document-research-workflow.ts) is modelled step   *)
(* by step: every createStep(...).execute is an operator or an action, and *)
(* the composition .then/.branch/.then/.then/.map/.commit is the driver.   *)
(*                                                                         *)
(* Encoding of JavaScript values:                                          *)
(*   - an optional value is a sequence of length 0 (undefined) or 1;       *)
(*   - a string built by a template literal is the tuple of its parts;     *)
(*   - an array is a sequence; `platforms` is only ever tested with        *)
(*     .includes(), so it is carried as a set;                             *)
(*   - an object is a record (a function on its keys).                     *)
(***************************************************************************)
EXTENDS Integers, Sequences, FiniteSets, TLC

VARIABLES
    status,      \* run -> Pending | Running | Suspended | Succeeded | Failed | Bailed
    cursor,      \* run -> id of the node the run is at
    data,        \* run -> inputData of the node at the cursor (output of the previous node)
    local,       \* run -> local variables of the execute() call in flight
    checkpoint,  \* run -> optional {stepId, payload, snapshot} written by suspend()
    output,      \* run -> optional terminal output of the run
    error,       \* run -> optional {stepId, message} of the step that threw
    events,      \* run -> sequence of the events written with writer?.write
    trace,       \* run -> sequence of the ids of the steps whose execute() was invoked
    ops,         \* run -> sequence of the external operations called, with their outcome
    input        \* run -> the initial input the run was started with

vars == <<status, cursor, data, local, checkpoint, output, error, events, trace, ops, input>>

-----------------------------------------------------------------------------
(* Bounds of the model                                                     *)

\* longest publishChannels array an input carries
MaxChannels == 2

RunIds == {"r1", "r2"}

\* the runs the single-run specification starts
SoloRuns == {"r1"}

Queries == {"X", "Y"}

-----------------------------------------------------------------------------
(* JavaScript helpers                                                      *)

None == <<>>

Some(x) == <<x>>

\* `opt = dflt` in a destructuring pattern, and zod's .default(dflt)
OrDefault(opt, dflt) == IF opt = None THEN dflt ELSE opt[1]

\* { ...a, ...b }: keys of b win
Spread(a, b) ==
    [k \in (DOMAIN a) \cup (DOMAIN b) |-> IF k \in DOMAIN b THEN b[k] ELSE a[k]]

Append2(s, a, b) == Append(Append(s, a), b)

-----------------------------------------------------------------------------
(* Schemas                                                                 *)

\* z.enum(["google-drive", "github", "slack"])
Platforms == {"google-drive", "github", "slack"}

\* z.enum(["slack", "email", "google-drive"])
Channels == {"slack", "email", "google-drive"}

ChannelLists == UNION {[1..n -> Channels] : n \in 0..MaxChannels}

\* the records documentResearchWorkflow.inputSchema accepts
WorkflowInputs ==
    [query : Queries,
     platforms : {None} \cup {Some(ps) : ps \in SUBSET Platforms},
     requireApproval : {None, Some(TRUE), Some(FALSE)},
     publishChannels : {None} \cup {Some(cs) : cs \in ChannelLists}]

\* variant: the default of requireApproval is false
ParseWorkflowInput_DefaultFalse(raw) ==
    [query |-> raw.query,
     platforms |-> raw.platforms,
     requireApproval |-> OrDefault(raw.requireApproval, FALSE),
     publishChannels |-> raw.publishChannels]

\* parse by the input schema: requireApproval: z.boolean().default(true)
ParseWorkflowInput(raw) ==
    [query |-> raw.query,
     platforms |-> raw.platforms,
     requireApproval |-> OrDefault(raw.requireApproval, TRUE),
     publishChannels |-> raw.publishChannels]

-----------------------------------------------------------------------------
(* Step 1: search-documents                                                *)

\* the three helpers catch their own failure and return []
searchGoogleDrive(query, fails) ==
    IF fails THEN <<>>
    ELSE << [id |-> "1", name |-> <<"Document about ", query>>, type |-> "document"] >>

\* variant: the catch block returns an error entry instead of []
searchGitHub_ErrorEntry(query, fails) ==
    IF fails THEN << [id |-> "0", name |-> <<"GitHub search failed">>, type |-> "error"] >>
    ELSE << [id |-> "1", name |-> <<"Repository related to ", query>>, type |-> "repository"] >>

searchGitHub(query, fails) ==
    IF fails THEN <<>>
    ELSE << [id |-> "1", name |-> <<"Repository related to ", query>>, type |-> "repository"] >>

searchSlack(query, fails) ==
    IF fails THEN <<>>
    ELSE << [id |-> "1", text |-> <<"Message about ", query>>, channel |-> "general"] >>

SubSearch(p, query, fails) ==
    CASE p = "google-drive" -> searchGoogleDrive(query, fails)
      [] p = "github"       -> searchGitHub(query, fails)
      [] p = "slack"        -> searchSlack(query, fails)

\* variant: the slack callback assigns the github field
ResultField_CopyPaste(p) ==
    CASE p = "google-drive" -> "googleDriveResults"
      [] p = "github"       -> "githubResults"
      [] p = "slack"        -> "githubResults"

\* the field of `results` the .then callback of platform p assigns
ResultField(p) ==
    CASE p = "google-drive" -> "googleDriveResults"
      [] p = "github"       -> "githubResults"
      [] p = "slack"        -> "slackResults"

\* `results` as initialised before the sub-searches are launched
InitialResults(in) ==
    [googleDriveResults |-> <<>>,
     githubResults |-> <<>>,
     slackResults |-> <<>>,
     totalResults |-> 0,
     query |-> in.query,
     requireApproval |-> in.requireApproval,
     publishChannels |-> in.publishChannels]

\* the sub-searches pushed on searchPromises
LaunchedSearches(in) == OrDefault(in.platforms, Platforms) \cap Platforms

\* variant: the last promise still pending is not awaited
AllSettled_AllButOne(loc) == Cardinality(loc.pending) <= 1

\* `await Promise.all(searchPromises)` resolves: every promise has resolved
AllSettled(loc) == loc.pending = {}

\* results.totalResults after the join
TotalResults(res) ==
    Len(res.googleDriveResults) + Len(res.githubResults) + Len(res.slackResults)

-----------------------------------------------------------------------------
(* Step 2: analyze-results                                                 *)

\* what `await generateText(...)` can do: reject, return text that is not
\* JSON, or return JSON text (complete, lacking keys, or carrying keys named
\* like the pass-through fields)
TextKinds == {"throws", "plain", "json", "json-partial", "json-inject"}

JsonKinds == {"json", "json-partial", "json-inject"}

\* the `text` returned by generateText
TextOf(kind) == <<"text", kind>>

FullAnalysis ==
    [summary |-> <<"S">>,
     keyFindings |-> <<"f1", "f2">>,
     recommendations |-> <<"r1">>,
     relevanceScore |-> 90]

\* JSON.parse(text), for the kinds of text that parse
ParseJSON(kind) ==
    CASE kind = "json"         -> FullAnalysis
      [] kind = "json-partial" -> [summary |-> <<"S">>]
      [] kind = "json-inject"  ->
            Spread(FullAnalysis,
                   [query |-> "Z",
                    requireApproval |-> FALSE,
                    publishChannels |-> Some(<<"email">>)])

\* variant: the parsed JSON is spread after the three fields of the input
analyzeResultsStep_SpreadLast(in, kind) ==
    LET passThrough == [query |-> in.query,
                        requireApproval |-> in.requireApproval,
                        publishChannels |-> in.publishChannels]
    IN  IF kind \in JsonKinds
        THEN Spread(passThrough, ParseJSON(kind))
        ELSE Spread([summary |-> TextOf(kind),
                     keyFindings |-> <<"Analysis completed">>,
                     recommendations |-> <<"Review the findings">>,
                     relevanceScore |-> 75],
                    passThrough)

\* the record the step returns when generateText returned text of this kind
analyzeResultsStep(in, kind) ==
    LET passThrough == [query |-> in.query,
                        requireApproval |-> in.requireApproval,
                        publishChannels |-> in.publishChannels]
    IN  IF kind \in JsonKinds
        THEN Spread(ParseJSON(kind), passThrough)
        ELSE Spread([summary |-> TextOf(kind),
                     keyFindings |-> <<"Analysis completed">>,
                     recommendations |-> <<"Review the findings">>,
                     relevanceScore |-> 75],
                    passThrough)

-----------------------------------------------------------------------------
(* Step 3: create-report                                                   *)

\* fields create-report destructures and dereferences
ReportRequired == {"summary", "keyFindings", "recommendations", "relevanceScore"}

ReportInputOk(in) == ReportRequired \subseteq DOMAIN in

\* `Research Report: ${query}`
ReportTitle(query) == <<"Research Report: ", query>>

\* the markdown text; the "Generated on" date is not modelled
ReportContent(in) ==
    <<"# ", ReportTitle(in.query),
      "Relevance Score", in.relevanceScore,
      "Executive Summary", in.summary,
      "Key Findings", [i \in DOMAIN in.keyFindings |-> <<"- ", in.keyFindings[i]>>],
      "Recommendations", [i \in DOMAIN in.recommendations |-> <<i, ". ", in.recommendations[i]>>]>>

createReportStep(in) ==
    [reportTitle |-> ReportTitle(in.query),
     reportContent |-> ReportContent(in),
     reportFormat |-> "markdown",
     requireApproval |-> in.requireApproval,
     publishChannels |-> in.publishChannels]

-----------------------------------------------------------------------------
(* Steps 4 and 5: human-approval, auto-approve, and the branch             *)

\* the resume data the model supplies; all of it satisfies resumeSchema
Feedbacks == {None, Some("fb")}

\* modifiedContent: absent, the empty string, or an edited text
Modifications == {None, Some(<<>>), Some(<<"edited">>)}

ResumeDatas == [approved : BOOLEAN, feedback : Feedbacks, modifiedContent : Modifications]

\* the argument of suspend()
SuspendPayload(in) == [reportTitle |-> in.reportTitle, reportContent |-> in.reportContent]

\* `resumeData.modifiedContent || reportContent`
ContentOr(modified, content) ==
    IF modified # None /\ modified[1] # <<>> THEN modified[1] ELSE content

\* variant: the decision of the reviewer is ignored
approvalStep_AlwaysApproved(in, resumeData) ==
    [approved |-> TRUE,
     feedback |-> resumeData.feedback,
     reportTitle |-> in.reportTitle,
     reportContent |-> ContentOr(resumeData.modifiedContent, in.reportContent),
     publishChannels |-> in.publishChannels]

\* variant: the requested channels are not passed on
approvalStep_DropsChannels(in, resumeData) ==
    [approved |-> resumeData.approved,
     feedback |-> resumeData.feedback,
     reportTitle |-> in.reportTitle,
     reportContent |-> ContentOr(resumeData.modifiedContent, in.reportContent),
     publishChannels |-> None]

\* variant: the request for approval is written on every entry
ApprovalEvent_Repeats(resumeData) ==
    [type |-> "approval-required", status |-> "waiting"]

\* the event human-approval writes: `if (!resumeData)` the request for
\* approval, else the decision received
ApprovalEvent(resumeData) ==
    IF resumeData = None
    THEN [type |-> "approval-required", status |-> "waiting"]
    ELSE [type |-> "approval-received",
          status |-> IF resumeData[1].approved THEN "approved" ELSE "rejected",
          feedback |-> resumeData[1].feedback]

\* the return value of human-approval when resumeData is present
approvalStep(in, resumeData) ==
    [approved |-> resumeData.approved,
     feedback |-> resumeData.feedback,
     reportTitle |-> in.reportTitle,
     reportContent |-> ContentOr(resumeData.modifiedContent, in.reportContent),
     publishChannels |-> in.publishChannels]

autoApproveStep(in) ==
    [approved |-> TRUE,
     reportTitle |-> in.reportTitle,
     reportContent |-> in.reportContent,
     publishChannels |-> in.publishChannels]

\* variant: the second guard holds whatever requireApproval is
BranchGuard_Overlap(i, in) ==
    CASE i = 1 -> in.requireApproval = TRUE
      [] i = 2 -> TRUE

\* the guards of .branch([...]), in declaration order, with their targets
BranchGuard(i, in) ==
    CASE i = 1 -> in.requireApproval = TRUE
      [] i = 2 -> in.requireApproval # TRUE

BranchTarget(i) ==
    CASE i = 1 -> "human-approval"
      [] i = 2 -> "auto-approve"

BranchIndexes == {1, 2}

\* the targets whose guard holds
BranchSelected(in) == {BranchTarget(i) : i \in {j \in BranchIndexes : BranchGuard(j, in)}}

\* variant: the output of the target is handed on as it is
BranchOutput_Flat(stepId, out) == out

\* the output of the branch: the target's output under the target's id
BranchOutput(stepId, out) == [k \in {stepId} |-> out]

-----------------------------------------------------------------------------
(* Step 6: normalize-branch-output                                         *)

\* inputData["human-approval"] || inputData["auto-approve"]
HasBranchResult(in) == {"human-approval", "auto-approve"} \cap DOMAIN in # {}

BranchResult(in) ==
    IF "human-approval" \in DOMAIN in THEN in["human-approval"] ELSE in["auto-approve"]

normalizeBranchOutputStep(in) ==
    LET branchResult == BranchResult(in)
    IN  [approved |-> branchResult.approved,
         reportTitle |-> branchResult.reportTitle,
         reportContent |-> branchResult.reportContent,
         publishChannels |-> branchResult.publishChannels]

-----------------------------------------------------------------------------
(* Step 7: publish-report, and the final map                               *)

\* variant: the test of the approval is lost
NotApproved_Never(in) == FALSE

\* `if (!inputData.approved)`
NotApproved(in) == ~in.approved

\* the argument of bail()
BailRecord(in) ==
    [published |-> FALSE,
     publishedChannels |-> <<>>,
     urls |-> <<>>,
     reportTitle |-> in.reportTitle,
     message |-> <<"Report was not approved for publication">>]

\* variant: the default of the destructuring is lost
PublishTargets_NoDefault(in) == OrDefault(in.publishChannels, <<>>)

\* `publishChannels = ["google-drive"]` in the destructuring
PublishTargets(in) == OrDefault(in.publishChannels, <<"google-drive">>)

\* the url createGoogleDoc returns (its Date.now() suffix is not modelled)
createGoogleDoc(title, content) == <<"https://docs.google.com/document/d/example-">>

\* variant: the channel is recorded before its operation is awaited
PublishOne_PushFirst(loc, channel, fails) ==
    [loc EXCEPT !.publishedChannels = Append(@, channel),
                !.urls = IF channel = "google-drive" /\ ~fails
                         THEN Append(@, createGoogleDoc(loc.reportTitle, loc.reportContent))
                         ELSE @]

\* the locals of the loop after one more channel was handled
PublishOne(loc, channel, fails) ==
    IF fails THEN loc
    ELSE [loc EXCEPT !.publishedChannels = Append(@, channel),
                     !.urls = IF channel = "google-drive"
                              THEN Append(@, createGoogleDoc(loc.reportTitle, loc.reportContent))
                              ELSE @]

\* the return value after the loop
PublishResult(loc) ==
    [published |-> Len(loc.publishedChannels) > 0,
     publishedChannels |-> loc.publishedChannels,
     urls |-> loc.urls,
     reportTitle |-> loc.reportTitle,
     message |-> IF Len(loc.publishedChannels) > 0
                 THEN <<"Report published to ", loc.publishedChannels>>
                 ELSE <<"Report was not published to any channels">>]

\* .map(async ({ inputData }) => ({ ... }))
MapFinalOutput(in) ==
    [success |-> in.published,
     reportTitle |-> in.reportTitle,
     publishedChannels |-> in.publishedChannels,
     message |-> in.message]

-----------------------------------------------------------------------------
(* State of a run                                                          *)

Terminal == {"Succeeded", "Failed", "Bailed"}

\* nothing called yet: no sub-search, no text completion, no publishing
\* operation, no suspend, no resume, no agent looked up or called
NoOps ==
    [search |-> [p \in Platforms |-> "none"],
     text |-> "none",
     publish |-> <<>>,
     suspends |-> 0,
     resume |-> None,
     agent |-> "unasked",
     calls |-> <<>>]

Init ==
    /\ status = [r \in RunIds |-> "Pending"]
    /\ cursor = [r \in RunIds |-> "start"]
    /\ data = [r \in RunIds |-> None]
    /\ local = [r \in RunIds |-> None]
    /\ checkpoint = [r \in RunIds |-> None]
    /\ output = [r \in RunIds |-> None]
    /\ error = [r \in RunIds |-> None]
    /\ events = [r \in RunIds |-> <<>>]
    /\ trace = [r \in RunIds |-> <<>>]
    /\ ops = [r \in RunIds |-> NoOps]
    /\ input = [r \in RunIds |-> None]

\* variant: the value is kept in one place shared by the runs
Upd_Shared(f, r, v) == [x \in DOMAIN f |-> v]

Upd(f, r, v) == [f EXCEPT ![r] = v]

\* variant: the error does not say which step threw
Throw_Anonymous(r, message) ==
    /\ status' = Upd(status, r, "Failed")
    /\ error' = Upd(error, r, Some([stepId |-> "unknown", message |-> message]))

\* the step at the cursor threw: the run fails with the step's id
Throw(r, message) ==
    /\ status' = Upd(status, r, "Failed")
    /\ error' = Upd(error, r, Some([stepId |-> cursor[r], message |-> message]))

-----------------------------------------------------------------------------
(* documentResearchWorkflow: start, and the search fan-out                 *)

\* createRun().start({ inputData }): the input is parsed by the workflow's
\* inputSchema and handed to the first step
Start(r, inputs) ==
    /\ status[r] = "Pending"
    /\ \E raw \in inputs :
          /\ input' = Upd(input, r, Some(raw))
          /\ data' = Upd(data, r, ParseWorkflowInput(raw))
    /\ status' = Upd(status, r, "Running")
    /\ cursor' = Upd(cursor, r, "search-documents")
    /\ UNCHANGED <<local, checkpoint, output, error, events, trace, ops>>

\* search-documents up to `await Promise.all(searchPromises)`
SearchLaunch(r) ==
    /\ status[r] = "Running"
    /\ cursor[r] = "search-documents"
    /\ local[r] = None
    /\ LET in == data[r]
           launched == LaunchedSearches(in)
       IN  /\ events' = Upd(events, r, Append(events[r],
                            [type |-> "search-status", status |-> "starting",
                             platforms |-> OrDefault(in.platforms, Platforms)]))
           /\ local' = Upd(local, r, Some([results |-> InitialResults(in), pending |-> launched]))
           /\ ops' = Upd(ops, r, [ops[r] EXCEPT !.search =
                            [p \in Platforms |-> IF p \in launched THEN "pending" ELSE "none"]])
    /\ trace' = Upd(trace, r, Append(trace[r], "search-documents"))
    /\ UNCHANGED <<status, cursor, data, checkpoint, output, error, input>>

\* variant: the search of slack never settles
SubSearchSettle_SlackHangs(r, p) ==
    /\ status[r] = "Running"
    /\ cursor[r] = "search-documents"
    /\ local[r] # None
    /\ p \in local[r][1].pending \ {"slack"}
    /\ \E fails \in BOOLEAN :
          LET loc == local[r][1]
              res == SubSearch(p, loc.results.query, fails)
          IN  /\ local' = Upd(local, r, Some(
                     [results |-> [loc.results EXCEPT ![ResultField(p)] = res],
                      pending |-> loc.pending \ {p}]))
              /\ events' = Upd(events, r, Append(events[r],
                     [type |-> "search-status", platform |-> p,
                      status |-> "complete", count |-> Len(res)]))
              /\ ops' = Upd(ops, r, [ops[r] EXCEPT !.search[p] =
                                        IF fails THEN "failed" ELSE "ok"])
    /\ UNCHANGED <<status, cursor, data, checkpoint, output, error, trace, input>>

\* one sub-search settles and its .then callback runs
SubSearchSettle(r, p) ==
    /\ status[r] = "Running"
    /\ cursor[r] = "search-documents"
    /\ local[r] # None
    /\ p \in local[r][1].pending
    /\ \E fails \in BOOLEAN :
          LET loc == local[r][1]
              res == SubSearch(p, loc.results.query, fails)
          IN  /\ local' = Upd(local, r, Some(
                     [results |-> [loc.results EXCEPT ![ResultField(p)] = res],
                      pending |-> loc.pending \ {p}]))
              /\ events' = Upd(events, r, Append(events[r],
                     [type |-> "search-status", platform |-> p,
                      status |-> "complete", count |-> Len(res)]))
              /\ ops' = Upd(ops, r, [ops[r] EXCEPT !.search[p] =
                                        IF fails THEN "failed" ELSE "ok"])
    /\ UNCHANGED <<status, cursor, data, checkpoint, output, error, trace, input>>

\* Promise.all resolved: totalResults is computed and the step returns
SearchJoin(r) ==
    /\ status[r] = "Running"
    /\ cursor[r] = "search-documents"
    /\ local[r] # None
    /\ AllSettled(local[r][1])
    /\ LET res == local[r][1].results
       IN  data' = Upd(data, r, [res EXCEPT !.totalResults = TotalResults(res)])
    /\ local' = Upd(local, r, None)
    /\ cursor' = Upd(cursor, r, "analyze-results")
    /\ UNCHANGED <<status, checkpoint, output, error, events, trace, ops, input>>

-----------------------------------------------------------------------------
(* analyze-results and create-report                                       *)

\* generateText is awaited outside the try block: its rejection fails the
\* step; the try/catch only covers JSON.parse
Analyze(r) ==
    /\ status[r] = "Running"
    /\ cursor[r] = "analyze-results"
    /\ trace' = Upd(trace, r, Append(trace[r], "analyze-results"))
    /\ \E kind \in TextKinds :
          LET analyzing == [type |-> "analysis-status", status |-> "analyzing"]
              complete == [type |-> "analysis-status", status |-> "complete"]
          IN  /\ ops' = Upd(ops, r, [ops[r] EXCEPT !.text = kind])
              /\ IF kind = "throws"
                 THEN /\ Throw(r, "generateText rejected")
                      /\ events' = Upd(events, r, Append(events[r], analyzing))
                      /\ UNCHANGED <<data, cursor>>
                 ELSE /\ data' = Upd(data, r, analyzeResultsStep(data[r], kind))
                      /\ events' = Upd(events, r,
                             IF kind \in JsonKinds
                             THEN Append2(events[r], analyzing, complete)
                             ELSE Append(events[r], analyzing))
                      /\ cursor' = Upd(cursor, r, "create-report")
                      /\ UNCHANGED <<status, error>>
    /\ UNCHANGED <<local, checkpoint, output, input>>

\* create-report: its inputSchema rejects a record without the analysis
\* fields (and keyFindings.map would throw on it)
CreateReport(r) ==
    /\ status[r] = "Running"
    /\ cursor[r] = "create-report"
    /\ IF ReportInputOk(data[r])
       THEN /\ data' = Upd(data, r, createReportStep(data[r]))
            /\ trace' = Upd(trace, r, Append(trace[r], "create-report"))
            /\ cursor' = Upd(cursor, r, "branch")
            /\ UNCHANGED <<status, error>>
       ELSE /\ Throw(r, "invalid input")
            /\ UNCHANGED <<data, trace, cursor>>
    /\ UNCHANGED <<local, checkpoint, output, events, ops, input>>

-----------------------------------------------------------------------------
(* The branch, its two targets, and the merge step                         *)

\* .branch([[guard, approvalStep], [guard, autoApproveStep]]): the run moves
\* to the target whose guard holds for the output of create-report
Branch(r) ==
    /\ status[r] = "Running"
    /\ cursor[r] = "branch"
    /\ \E target \in BranchSelected(data[r]) :
          cursor' = Upd(cursor, r, target)
    /\ UNCHANGED <<status, data, local, checkpoint, output, error, events, trace, ops, input>>

\* variant: the step goes on after suspend() and its return value is taken
\* as its output
ApprovalSuspend_Continues(r) ==
    /\ status[r] = "Running"
    /\ cursor[r] = "human-approval"
    /\ trace' = Upd(trace, r, Append(trace[r], "human-approval"))
    /\ events' = Upd(events, r, Append(events[r], ApprovalEvent(None)))
    /\ checkpoint' = Upd(checkpoint, r, Some([stepId |-> "human-approval",
                                              payload |-> SuspendPayload(data[r]),
                                              snapshot |-> data[r]]))
    /\ ops' = Upd(ops, r, [ops[r] EXCEPT !.suspends = @ + 1])
    /\ data' = Upd(data, r, BranchOutput("human-approval",
                     [approved |-> FALSE,
                      reportTitle |-> data[r].reportTitle,
                      reportContent |-> data[r].reportContent,
                      publishChannels |-> data[r].publishChannels]))
    /\ cursor' = Upd(cursor, r, "normalize-branch-output")
    /\ UNCHANGED <<status, local, output, error, input>>

\* human-approval entered without resumeData: the event is written and
\* suspend() is called with the report; the value returned after suspend()
\* is not the step's output, the run waits for resume()
ApprovalSuspend(r) ==
    /\ status[r] = "Running"
    /\ cursor[r] = "human-approval"
    /\ trace' = Upd(trace, r, Append(trace[r], "human-approval"))
    /\ events' = Upd(events, r, Append(events[r], ApprovalEvent(None)))
    /\ checkpoint' = Upd(checkpoint, r, Some([stepId |-> "human-approval",
                                              payload |-> SuspendPayload(data[r]),
                                              snapshot |-> data[r]]))
    /\ ops' = Upd(ops, r, [ops[r] EXCEPT !.suspends = @ + 1])
    /\ status' = Upd(status, r, "Suspended")
    /\ UNCHANGED <<cursor, data, local, output, error, input>>

\* variant: resume() is also accepted by a run that has ended
Resume_AfterEnd(r) ==
    /\ status[r] \in {"Suspended", "Succeeded", "Failed", "Bailed"}
    /\ checkpoint[r] # None
    /\ \E resumeData \in ResumeDatas :
          LET in == checkpoint[r][1].snapshot
          IN  /\ events' = Upd(events, r,
                     Append(events[r], ApprovalEvent(Some(resumeData))))
              /\ data' = Upd(data, r,
                     BranchOutput("human-approval", approvalStep(in, resumeData)))
              /\ ops' = Upd(ops, r, [ops[r] EXCEPT !.resume = Some(resumeData)])
    /\ trace' = Upd(trace, r, Append(trace[r], "human-approval"))
    /\ status' = Upd(status, r, "Running")
    /\ cursor' = Upd(cursor, r, "normalize-branch-output")
    /\ UNCHANGED <<local, checkpoint, output, error, input>>

\* run.resume({ step, resumeData }): human-approval is entered again with
\* the same inputData and with resumeData
Resume(r) ==
    /\ status[r] = "Suspended"
    /\ cursor[r] = "human-approval"
    /\ checkpoint[r] # None
    /\ \E resumeData \in ResumeDatas :
          LET in == checkpoint[r][1].snapshot
          IN  /\ events' = Upd(events, r,
                     Append(events[r], ApprovalEvent(Some(resumeData))))
              /\ data' = Upd(data, r,
                     BranchOutput("human-approval", approvalStep(in, resumeData)))
              /\ ops' = Upd(ops, r, [ops[r] EXCEPT !.resume = Some(resumeData)])
    /\ trace' = Upd(trace, r, Append(trace[r], "human-approval"))
    /\ status' = Upd(status, r, "Running")
    /\ cursor' = Upd(cursor, r, "normalize-branch-output")
    /\ UNCHANGED <<local, checkpoint, output, error, input>>

AutoApprove(r) ==
    /\ status[r] = "Running"
    /\ cursor[r] = "auto-approve"
    /\ data' = Upd(data, r, BranchOutput("auto-approve", autoApproveStep(data[r])))
    /\ trace' = Upd(trace, r, Append(trace[r], "auto-approve"))
    /\ cursor' = Upd(cursor, r, "normalize-branch-output")
    /\ UNCHANGED <<status, local, checkpoint, output, error, events, ops, input>>

Normalize(r) ==
    /\ status[r] = "Running"
    /\ cursor[r] = "normalize-branch-output"
    /\ trace' = Upd(trace, r, Append(trace[r], "normalize-branch-output"))
    /\ IF HasBranchResult(data[r])
       THEN /\ data' = Upd(data, r, normalizeBranchOutputStep(data[r]))
            /\ cursor' = Upd(cursor, r, "publish-report")
            /\ UNCHANGED <<status, error>>
       ELSE /\ Throw(r, "No branch result found")
            /\ UNCHANGED <<data, cursor>>
    /\ UNCHANGED <<local, checkpoint, output, events, ops, input>>

-----------------------------------------------------------------------------
(* publish-report and the final map                                        *)

\* publish-report up to the loop: bail when not approved
PublishStart(r) ==
    /\ status[r] = "Running"
    /\ cursor[r] = "publish-report"
    /\ local[r] = None
    /\ trace' = Upd(trace, r, Append(trace[r], "publish-report"))
    /\ IF NotApproved(data[r])
       THEN /\ status' = Upd(status, r, "Bailed")
            /\ output' = Upd(output, r, Some(BailRecord(data[r])))
            /\ UNCHANGED local
       ELSE /\ local' = Upd(local, r, Some([reportTitle |-> data[r].reportTitle,
                                            reportContent |-> data[r].reportContent,
                                            channels |-> PublishTargets(data[r]),
                                            i |-> 1,
                                            publishedChannels |-> <<>>,
                                            urls |-> <<>>]))
            /\ UNCHANGED <<status, output>>
    /\ UNCHANGED <<cursor, data, checkpoint, error, events, ops, input>>

\* one iteration of `for (const channel of publishChannels)`
PublishChannel(r) ==
    /\ status[r] = "Running"
    /\ cursor[r] = "publish-report"
    /\ local[r] # None
    /\ local[r][1].i <= Len(local[r][1].channels)
    /\ \E fails \in BOOLEAN :
          LET loc == local[r][1]
              channel == loc.channels[loc.i]
          IN  /\ local' = Upd(local, r,
                     Some([PublishOne(loc, channel, fails) EXCEPT !.i = loc.i + 1]))
              /\ events' = Upd(events, r, Append2(events[r],
                     [type |-> "publishing", channel |-> channel, status |-> "in-progress"],
                     [type |-> "publishing", channel |-> channel,
                      status |-> IF fails THEN "failed" ELSE "complete"]))
              /\ ops' = Upd(ops, r, [ops[r] EXCEPT !.publish =
                                        Append(@, [channel |-> channel, ok |-> ~fails])])
    /\ UNCHANGED <<status, cursor, data, checkpoint, output, error, trace, input>>

\* the loop is over: publish-report returns
PublishFinish(r) ==
    /\ status[r] = "Running"
    /\ cursor[r] = "publish-report"
    /\ local[r] # None
    /\ local[r][1].i > Len(local[r][1].channels)
    /\ data' = Upd(data, r, PublishResult(local[r][1]))
    /\ local' = Upd(local, r, None)
    /\ cursor' = Upd(cursor, r, "map")
    /\ UNCHANGED <<status, checkpoint, output, error, events, trace, ops, input>>

\* .map(...) produces the workflow's output and the run ends
MapFinal(r) ==
    /\ status[r] = "Running"
    /\ cursor[r] = "map"
    /\ output' = Upd(output, r, Some(MapFinalOutput(data[r])))
    /\ status' = Upd(status, r, "Succeeded")
    /\ cursor' = Upd(cursor, r, "done")
    /\ UNCHANGED <<data, local, checkpoint, error, events, trace, ops, input>>

-----------------------------------------------------------------------------
(* Specification of one run                                                *)

Step(r) ==
    \/ SearchLaunch(r)
    \/ \E p \in Platforms : SubSearchSettle(r, p)
    \/ SearchJoin(r)
    \/ Analyze(r)
    \/ CreateReport(r)
    \/ Branch(r)
    \/ ApprovalSuspend(r)
    \/ Resume(r)
    \/ AutoApprove(r)
    \/ Normalize(r)
    \/ PublishStart(r)
    \/ PublishChannel(r)
    \/ PublishFinish(r)
    \/ MapFinal(r)

\* the inputs of the single-run specification: every choice of platforms
\* with the default channel, and every list of channels with one platform
SoloInputs ==
    {raw \in WorkflowInputs :
        /\ raw.query = "X"
        /\ raw.publishChannels = None \/ raw.platforms = Some({"github"})}

Next == \E r \in SoloRuns : Start(r, SoloInputs) \/ Step(r)

Spec == Init /\ [][Next]_vars

-----------------------------------------------------------------------------
(* Vocabulary of the properties                                            *)

InTrace(r, id) == \E i \in DOMAIN trace[r] : trace[r][i] = id

IsPrefix(s, t) == Len(s) <= Len(t) /\ \A i \in DOMAIN s : s[i] = t[i]

Range(s) == {s[i] : i \in DOMAIN s}

Started(r) == input[r] # None

\* the text completion gave create-report its fields
TextOk(r) == ops[r].text \notin {"throws", "json-partial"}

\* every publishing operation called so far succeeded
PublishOk(r) == \A i \in DOMAIN ops[r].publish : ops[r].publish[i].ok

\* search-documents has returned and analyze-results has not been entered
AfterSearch(r) == cursor[r] = "analyze-results" /\ ~InTrace(r, "analyze-results")

SourcesWith(r, outcome) == {p \in Platforms : ops[r].search[p] = outcome}

-----------------------------------------------------------------------------
(* C1: end-to-end run without approval                                     *)

C1Input ==
    [query |-> "X",
     platforms |-> Some({"github"}),
     requireApproval |-> Some(FALSE),
     publishChannels |-> None]

C1Path ==
    <<"search-documents", "analyze-results", "create-report",
      "auto-approve", "normalize-branch-output", "publish-report">>

\* the steps of the scenario run, in order, without human-approval, without
\* suspension, and with the github sub-search only
C1Route(r) ==
    /\ IsPrefix(trace[r], C1Path)
    /\ status[r] # "Suspended"
    /\ checkpoint[r] = None
    /\ \A p \in Platforms \ {"github"} : ops[r].search[p] = "none"
    /\ cursor[r] \notin {"start", "search-documents"} => ops[r].search["github"] \in {"ok", "failed"}

\* the final output of the scenario run: success, and the channel published to
C1Success(r) ==
    /\ output[r] # None
    /\ output[r][1].success = TRUE
    /\ output[r][1].publishedChannels = <<"google-drive">>
    /\ output[r][1].reportTitle = ReportTitle("X")

\* C1 as stated: the run started with {query "X", platforms [github],
\* requireApproval false} takes the route search, analysis, report,
\* auto-approve, publish, never fails, and ends with success:true and the
\* channel in publishedChannels
C1_Original ==
    \A r \in RunIds : input[r] = Some(C1Input) =>
        /\ C1Route(r)
        /\ status[r] \notin {"Failed", "Bailed"}
        /\ status[r] = "Succeeded" => C1Success(r)

\* C1 (amended): the scenario run takes the route search (github only),
\* analysis, report, auto-approve, merge, publish, never suspends, and
\* while Running always has a next step; when the
\* text completion returns usable text and createGoogleDoc succeeds it never
\* fails and ends with success:true and publishedChannels ["google-drive"];
\* it fails only in analyze-results or create-report on a rejected or
\* incomplete completion, and ends with success:false when createGoogleDoc failed
C1_EndToEnd ==
    \A r \in RunIds : input[r] = Some(C1Input) =>
        /\ C1Route(r)
        /\ status[r] # "Bailed"
        /\ status[r] = "Running" => ENABLED Step(r)
        /\ status[r] = "Failed" =>
              /\ ~TextOk(r)
              /\ cursor[r] \in {"analyze-results", "create-report"}
        /\ status[r] = "Succeeded" =>
              /\ trace[r] = C1Path
              /\ TextOk(r)
              /\ Len(ops[r].publish) = 1
              /\ ops[r].publish[1].channel = "google-drive"
              /\ IF PublishOk(r)
                 THEN C1Success(r)
                 ELSE /\ output[r][1].success = FALSE
                      /\ output[r][1].publishedChannels = <<>>

C1_Witness ==
    \E r \in RunIds :
        /\ input[r] = Some(C1Input)
        /\ status[r] = "Succeeded"
        /\ trace[r] = C1Path
        /\ C1Success(r)

-----------------------------------------------------------------------------
(* C2: suspension at human-approval, then a rejecting resume               *)

\* the run was started with requireApproval:true
ApprovalRequested(r) == Started(r) /\ input[r][1].requireApproval = Some(TRUE)

\* a resume was accepted and its data has approved:false
ResumedRejected(r) == ops[r].resume # None /\ ~ops[r].resume[1].approved

\* the run is Suspended at human-approval and its checkpoint carries the
\* title and the content of the report create-report produced
SuspendedWithReport(r) ==
    /\ cursor[r] = "human-approval"
    /\ checkpoint[r] # None
    /\ checkpoint[r][1].stepId = "human-approval"
    /\ DOMAIN checkpoint[r][1].payload = {"reportTitle", "reportContent"}
    /\ checkpoint[r][1].payload.reportTitle = ReportTitle(input[r][1].query)
    /\ checkpoint[r][1].payload.reportContent = data[r].reportContent
    /\ data[r].reportTitle = ReportTitle(input[r][1].query)

\* the terminal output of the bail: nothing was published
BailedUnpublished(r) ==
    /\ status[r] = "Bailed"
    /\ output[r] # None
    /\ output[r][1].published = FALSE
    /\ output[r][1].publishedChannels = <<>>
    /\ output[r][1].reportTitle = ReportTitle(input[r][1].query)
    /\ ops[r].publish = <<>>

\* C2 as stated: every run started with requireApproval:true reaches
\* Suspended at human-approval with the report in the checkpoint, and a
\* resume with approved:false ends it with a bail output, published:false
C2_Original ==
    \A r \in RunIds : ApprovalRequested(r) =>
        /\ status[r] = "Suspended" => SuspendedWithReport(r)
        /\ status[r] \in Terminal => checkpoint[r] # None
        /\ (ResumedRejected(r) /\ status[r] \in Terminal) => BailedUnpublished(r)

\* C2 (amended): a run started with requireApproval:true never takes the
\* auto-approve target and is never stuck (a Running run has a next step, a
\* Suspended run can be resumed); unless analyze-results or create-report fails it on
\* a rejected or incomplete text completion, it passes the branch only by
\* suspending at human-approval with a checkpoint carrying the report title
\* and content; after a resume with approved:false it only runs on to the
\* bail of publish-report: terminal output published:false, nothing published
C2_SuspendThenReject ==
    \A r \in RunIds : ApprovalRequested(r) =>
        /\ ~InTrace(r, "auto-approve")
        /\ status[r] = "Running" => ENABLED Step(r)
        /\ status[r] = "Suspended" => SuspendedWithReport(r) /\ ENABLED Resume(r)
        /\ (status[r] \in Terminal /\ checkpoint[r] = None) =>
              /\ status[r] = "Failed"
              /\ ~TextOk(r)
              /\ cursor[r] \in {"analyze-results", "create-report"}
        /\ InTrace(r, "normalize-branch-output") =>
              /\ checkpoint[r] # None
              /\ ops[r].resume # None
        /\ ResumedRejected(r) =>
              /\ status[r] \in {"Running", "Bailed"}
              /\ cursor[r] \in {"normalize-branch-output", "publish-report"}
              /\ ops[r].publish = <<>>
              /\ status[r] = "Bailed" => BailedUnpublished(r)

C2_Witness ==
    \E r \in RunIds :
        /\ ApprovalRequested(r)
        /\ ops[r].resume = Some([approved |-> FALSE, feedback |-> None, modifiedContent |-> None])
        /\ checkpoint[r] # None
        /\ BailedUnpublished(r)

-----------------------------------------------------------------------------
(* C3: suspend/resume is transparent to the final output                   *)

\* the result set search-documents holds for platform p, from the outcome
\* of the sub-search
Returned(r, p) ==
    IF ops[r].search[p] = "ok" THEN SubSearch(p, input[r][1].query, FALSE) ELSE <<>>

\* the publish loop over all channels, with the recorded outcomes
RECURSIVE PublishAll(_, _, _)
PublishAll(loc, channels, outcomes) ==
    IF channels = <<>> \/ outcomes = <<>>
    THEN loc
    ELSE PublishAll(PublishOne(loc, Head(channels), ~Head(outcomes).ok),
                    Tail(channels), Tail(outcomes))

\* the final output of the non-suspending run (requireApproval:false) with
\* the query, platforms and publishChannels of run r and with the results
\* the external operations gave in run r
AutoApprovedOutput(r) ==
    LET raw == [input[r][1] EXCEPT !.requireApproval = Some(FALSE)]
        in == ParseWorkflowInput(raw)
        found == [InitialResults(in) EXCEPT
                     !.googleDriveResults = Returned(r, "google-drive"),
                     !.githubResults = Returned(r, "github"),
                     !.slackResults = Returned(r, "slack")]
        searched == [found EXCEPT !.totalResults = TotalResults(found)]
        report == createReportStep(analyzeResultsStep(searched, ops[r].text))
        merged == normalizeBranchOutputStep(
                      BranchOutput("auto-approve", autoApproveStep(report)))
        loc == [reportTitle |-> merged.reportTitle,
                reportContent |-> merged.reportContent,
                channels |-> PublishTargets(merged),
                i |-> 1,
                publishedChannels |-> <<>>,
                urls |-> <<>>]
    IN  MapFinalOutput(PublishResult(PublishAll(loc, PublishTargets(merged), ops[r].publish)))

\* a resume was accepted and its data has approved:true
ResumedApproved(r) == ops[r].resume # None /\ ops[r].resume[1].approved

\* C3: a run that suspended at human-approval and was resumed with
\* approved:true ends Succeeded with the final output of the auto-approve
\* run on the same query, platforms, publishChannels and external results;
\* the auto-approve runs of the model end with that same output
C3_Transparent ==
    \A r \in RunIds :
        /\ ResumedApproved(r) => status[r] \in {"Running", "Succeeded"}
        /\ (status[r] \in Terminal /\ (ResumedApproved(r) \/ InTrace(r, "auto-approve"))) =>
              /\ status[r] = "Succeeded"
              /\ output[r] = Some(AutoApprovedOutput(r))

C3_Witness ==
    \E r \in RunIds :
        /\ ops[r].resume = Some([approved |-> TRUE, feedback |-> None, modifiedContent |-> None])
        /\ checkpoint[r] # None
        /\ input[r][1].publishChannels = Some(<<"slack", "email">>)
        /\ status[r] = "Succeeded"
        /\ output[r] = Some(AutoApprovedOutput(r))
        /\ output[r][1].publishedChannels = <<"email">>

-----------------------------------------------------------------------------
(* C6: the search fan-out is a join                                        *)

\* the platforms whose sub-search the input asks for
Requested(r) == OrDefault(input[r][1].platforms, Platforms)

\* every launched sub-search has settled, with a result or with a failure
AllSearchesSettled(r) ==
    /\ SourcesWith(r, "pending") = {}
    /\ \A p \in Requested(r) : ops[r].search[p] \in {"ok", "failed"}

\* C6: while a launched sub-search is pending the run stays in
\* search-documents without an output; the node is left, and analyze-results
\* is entered, only when every launched sub-search has settled (success or
\* failure)
C6_JoinNotRace ==
    \A r \in RunIds : Started(r) =>
        /\ cursor[r] # "search-documents" => AllSearchesSettled(r)
        /\ InTrace(r, "analyze-results") => AllSearchesSettled(r)
        /\ SourcesWith(r, "pending") # {} =>
              /\ cursor[r] = "search-documents"
              /\ status[r] = "Running"
              /\ "totalResults" \notin DOMAIN data[r]
              /\ trace[r] = <<"search-documents">>

C6_Witness ==
    \E r \in RunIds :
        /\ InTrace(r, "analyze-results")
        /\ Requested(r) = Platforms
        /\ SourcesWith(r, "failed") # {}
        /\ SourcesWith(r, "ok") # {}
        /\ AllSearchesSettled(r)

-----------------------------------------------------------------------------
(* C7: one failing sub-search out of three                                 *)

\* C7: a failing sub-search never fails the run; when one of three
\* sub-searches failed and two succeeded, search-documents returns with the
\* failing source's result set empty and totalResults the sum of the two
\* succeeding sources' result counts
C7_PartialFailure ==
    \A r \in RunIds :
        /\ cursor[r] = "search-documents" => status[r] = "Running"
        /\ AfterSearch(r) => status[r] = "Running"
        /\ (/\ AfterSearch(r)
            /\ Cardinality(SourcesWith(r, "failed")) = 1
            /\ Cardinality(SourcesWith(r, "ok")) = 2) =>
              /\ \A p \in SourcesWith(r, "failed") : data[r][ResultField(p)] = <<>>
              /\ \E a, b \in SourcesWith(r, "ok") :
                    /\ a # b
                    /\ Len(data[r][ResultField(a)]) > 0
                    /\ Len(data[r][ResultField(b)]) > 0
                    /\ data[r].totalResults =
                          Len(data[r][ResultField(a)]) + Len(data[r][ResultField(b)])

C7_Witness ==
    \E r \in RunIds :
        /\ AfterSearch(r)
        /\ status[r] = "Running"
        /\ ops[r].search = [p \in Platforms |-> IF p = "github" THEN "failed" ELSE "ok"]
        /\ data[r].githubResults = <<>>
        /\ data[r].totalResults = 2

-----------------------------------------------------------------------------
(* C8: the aggregated search output does not depend on settlement order    *)

\* the output of search-documents as a function of the input and of what
\* each source returned
ExpectedSearchOutput(r) ==
    [googleDriveResults |-> Returned(r, "google-drive"),
     githubResults |-> Returned(r, "github"),
     slackResults |-> Returned(r, "slack"),
     totalResults |-> Len(Returned(r, "google-drive")) + Len(Returned(r, "github"))
                      + Len(Returned(r, "slack")),
     query |-> input[r][1].query,
     requireApproval |-> OrDefault(input[r][1].requireApproval, TRUE),
     publishChannels |-> input[r][1].publishChannels]

\* position of the "complete" event of platform p in the events of run r
SettledAt(r, p) ==
    {i \in DOMAIN events[r] :
        /\ events[r][i].type = "search-status"
        /\ events[r][i].status = "complete"
        /\ events[r][i].platform = p}

\* C8: in whatever order the sub-searches settled, the output of
\* search-documents is the record with the seven fields, each source's
\* result set the one it returned, totalResults the sum of the three
\* lengths; a platform not requested has no sub-search and an empty set
C8_OrderIndependent ==
    \A r \in RunIds : AfterSearch(r) =>
        /\ data[r] = ExpectedSearchOutput(r)
        /\ \A p \in Platforms \ Requested(r) :
              /\ ops[r].search[p] = "none"
              /\ SettledAt(r, p) = {}
              /\ data[r][ResultField(p)] = <<>>
        /\ \A p \in Platforms \cap Requested(r) : Cardinality(SettledAt(r, p)) = 1

\* slack settled first and google-drive last, the reverse of the launch order
C8_Witness ==
    \E r \in RunIds :
        /\ AfterSearch(r)
        /\ Requested(r) = Platforms
        /\ \E i \in SettledAt(r, "slack"), j \in SettledAt(r, "github"),
              k \in SettledAt(r, "google-drive") : i < j /\ j < k
        /\ ops[r].search["slack"] = "ok"
        /\ ops[r].search["google-drive"] = "failed"
        /\ data[r] = ExpectedSearchOutput(r)
        /\ data[r].totalResults = 2

-----------------------------------------------------------------------------
(* C11: bail at publish-report                                             *)

\* everything the model holds about run r
RunState(r) ==
    <<status[r], cursor[r], data[r], local[r], checkpoint[r], output[r],
      error[r], events[r], trace[r], ops[r], input[r]>>

Count(s, x) == Cardinality({i \in DOMAIN s : s[i] = x})

Last(s) == s[Len(s)]

\* the run ended at publish-report with the argument of bail() as its
\* output: nothing was published, no publishing event was written, the
\* final map was not applied
BailedAtPublish(r) ==
    /\ ops[r].resume # None
    /\ ~ops[r].resume[1].approved
    /\ output[r] = Some([published |-> FALSE,
                         publishedChannels |-> <<>>,
                         urls |-> <<>>,
                         reportTitle |-> ReportTitle(input[r][1].query),
                         message |-> <<"Report was not approved for publication">>])
    /\ "success" \notin DOMAIN output[r][1]
    /\ ops[r].publish = <<>>
    /\ \A i \in DOMAIN events[r] : events[r][i].type # "publishing"
    /\ Last(trace[r]) = "publish-report"
    /\ Count(trace[r], "publish-report") = 1
    /\ cursor[r] = "publish-report"
    /\ local[r] = None
    /\ error[r] = None

\* C11: publish-report entered with approved:false ends the run Bailed with
\* the argument of bail() as its output, before createGoogleDoc, postToSlack
\* or sendEmail is called and without the final map; a Bailed run takes no
\* further step
C11_BailShortCircuits ==
    [][\A r \in RunIds :
          /\ (InTrace(r, "publish-report") /\ ResumedRejected(r))'
                => (status[r] = "Bailed")'
          /\ (status[r] = "Bailed")' => BailedAtPublish(r)'
          /\ status[r] = "Bailed" => RunState(r)' = RunState(r)]_vars

\* a run bailed after a rejection that came with feedback and a modified
\* content, with two channels requested
C11_Witness ==
    \E r \in RunIds :
        /\ status[r] = "Bailed"
        /\ BailedAtPublish(r)
        /\ ops[r].resume[1].feedback # None
        /\ ops[r].resume[1].modifiedContent # None
        /\ data[r].publishChannels = Some(<<"slack", "email">>)
        /\ events[r][Len(events[r])].type = "approval-received"

-----------------------------------------------------------------------------
(* C12: resume does not run again what ran before the suspension           *)

EventCount(r, type) ==
    Cardinality({i \in DOMAIN events[r] : events[r][i].type = type})

Resumed(r) == ops[r].resume # None

\* the run has just been resumed: human-approval returned and
\* normalize-branch-output has not been entered
JustResumed(r) ==
    /\ Resumed(r)
    /\ cursor[r] = "normalize-branch-output"
    /\ status[r] = "Running"

\* C12: in a run that suspended and was resumed, search-documents,
\* analyze-results and create-report were each entered once, suspend() was
\* called once, the approval-required event was written once (and the
\* search and analysis events are those of the one execution), and
\* human-approval returns the decision of the resume data with the title,
\* content and channels held when the run suspended
C12_ResumeOnce ==
    \A r \in RunIds : Resumed(r) =>
        /\ Count(trace[r], "search-documents") = 1
        /\ Count(trace[r], "analyze-results") = 1
        /\ Count(trace[r], "create-report") = 1
        /\ Count(trace[r], "auto-approve") = 0
        /\ ops[r].suspends = 1
        /\ EventCount(r, "approval-required") = 1
        /\ EventCount(r, "approval-received") = 1
        /\ \A started \in {<<"search-status", "starting">>,
                            <<"analysis-status", "analyzing">>} :
              Cardinality({i \in DOMAIN events[r] :
                  /\ events[r][i].type = started[1]
                  /\ events[r][i].status = started[2]}) = 1
        /\ checkpoint[r] # None
        /\ JustResumed(r) =>
              LET saved == checkpoint[r][1]
                  resumeData == ops[r].resume[1]
                  out == data[r]["human-approval"]
              IN  /\ DOMAIN data[r] = {"human-approval"}
                  /\ out.approved = resumeData.approved
                  /\ out.feedback = resumeData.feedback
                  /\ out.reportTitle = saved.payload.reportTitle
                  /\ out.reportTitle = ReportTitle(input[r][1].query)
                  /\ out.reportContent =
                        IF resumeData.modifiedContent \in {None, Some(<<>>)}
                        THEN saved.payload.reportContent
                        ELSE resumeData.modifiedContent[1]
                  /\ out.publishChannels = saved.snapshot.publishChannels
                  /\ out.publishChannels = input[r][1].publishChannels

\* a run just resumed with approved:true, no modified content and a channel
\* list: the output of human-approval carries the content of the checkpoint
C12_Witness ==
    \E r \in RunIds :
        /\ JustResumed(r)
        /\ ops[r].suspends = 1
        /\ ops[r].resume[1].approved
        /\ ops[r].resume[1].modifiedContent = None
        /\ data[r]["human-approval"].reportContent = checkpoint[r][1].payload.reportContent
        /\ data[r]["human-approval"].publishChannels = Some(<<"email", "slack">>)
        /\ trace[r] = <<"search-documents", "analyze-results", "create-report",
                        "human-approval", "human-approval">>

-----------------------------------------------------------------------------
(* projectOnboardingWorkflow: schemas and steps                            *)

\* strings of the project names are sequences of characters
ProjectNames ==
    {<<"A", "p", "1">>, <<" ", "A", "!", "!", "p", " ">>, <<"-", "-">>}

\* the values Date.now() and Math.random() give a projectId
ProjectIds == {"proj_1", "proj_2"}

\* the values Math.random() gives a channelId
ChannelIds == {"CA", "CB"}

Timestamps == {"2026-01-01T00:00:00.000Z"}

OptionalFlags == {None, Some(TRUE), Some(FALSE)}

\* the records projectInputSchema accepts
ProjectInputs ==
    [projectName : ProjectNames,
     description : {"An onboarding description"},
     teamMembers : {<<"a@x.io">>, <<"a@x.io", "b@x.io">>},
     techStack : {None, Some(<<"ts">>)},
     deadline : {None, Some("2026-12-31")},
     priority : {None, Some("high")},
     platforms : {None} \cup {Some(ps) :
                     ps \in [github : OptionalFlags,
                             slack : OptionalFlags,
                             googleDrive : OptionalFlags]}]

\* parse by projectInputSchema: the defaults of techStack, priority,
\* platforms and of the three flags of platforms
ParseProjectInput(raw) ==
    LET flags == OrDefault(raw.platforms,
                           [github |-> None, slack |-> None, googleDrive |-> None])
    IN  [projectName |-> raw.projectName,
         description |-> raw.description,
         teamMembers |-> raw.teamMembers,
         techStack |-> OrDefault(raw.techStack, <<>>),
         deadline |-> raw.deadline,
         priority |-> OrDefault(raw.priority, "medium"),
         platforms |-> [github |-> OrDefault(flags.github, TRUE),
                        slack |-> OrDefault(flags.slack, TRUE),
                        googleDrive |-> OrDefault(flags.googleDrive, TRUE)]]

\* .toLowerCase() on the characters of the names
LowerCase(c) ==
    CASE c = "A" -> "a"
      [] OTHER -> c

\* [a-z0-9]
AlphaNumeric == {"a", "p", "1"}

\* .replace(/[^a-z0-9]+/g, '-'): every maximal run of other characters
\* becomes one dash
RECURSIVE DashRuns(_, _)
DashRuns(s, inRun) ==
    IF s = <<>> THEN <<>>
    ELSE IF Head(s) \in AlphaNumeric
         THEN <<Head(s)>> \o DashRuns(Tail(s), FALSE)
         ELSE IF inRun THEN DashRuns(Tail(s), TRUE)
              ELSE <<"-">> \o DashRuns(Tail(s), TRUE)

\* .replace(/^-|-$/g, ''): one dash off the start and one off the end
TrimDashes(s) ==
    LET t == IF s # <<>> /\ Head(s) = "-" THEN Tail(s) ELSE s
    IN  IF t # <<>> /\ t[Len(t)] = "-" THEN SubSeq(t, 1, Len(t) - 1) ELSE t

Slug(projectName) ==
    TrimDashes(DashRuns([i \in DOMAIN projectName |-> LowerCase(projectName[i])], FALSE))

\* Step 1: validate-project-data
validateProjectData(in, projectId, createdAt) ==
    Spread(in, [projectId |-> projectId,
                slug |-> Slug(in.projectName),
                createdAt |-> createdAt])

\* variant: the flag of a repository that was not created is true
GitHubNotCreated_Flagged(in) ==
    Spread(in, [repositoryUrl |-> <<>>, repositoryName |-> <<>>, githubSuccess |-> TRUE])

\* Step 2: create-github-repo, the platform off or the agent call failed
GitHubNotCreated(in) ==
    Spread(in, [repositoryUrl |-> <<>>, repositoryName |-> <<>>, githubSuccess |-> FALSE])

GitHubCreated(in) ==
    Spread(in, [repositoryUrl |-> <<"https://github.com/user/", in.slug>>,
                repositoryName |-> in.slug,
                githubSuccess |-> TRUE])

\* Step 3: create-google-drive-folder
DriveNotCreated(in) ==
    Spread(in, [driveFolderUrl |-> <<>>, driveFolderId |-> <<>>, driveSuccess |-> FALSE])

DriveCreated(in) ==
    Spread(in, [driveFolderUrl |-> <<"https://drive.google.com/drive/folders/example_folder_id">>,
                driveFolderId |-> <<"example_folder_id">>,
                driveSuccess |-> TRUE])

\* Step 4: create-slack-channel
SlackNotCreated(in) ==
    Spread(in, [channelName |-> <<>>, channelId |-> <<>>, slackSuccess |-> FALSE])

SlackCreated(in, channelId) ==
    Spread(in, [channelName |-> <<"proj-", in.slug>>,
                channelId |-> <<channelId>>,
                slackSuccess |-> TRUE])

\* `x || dflt` on a string
TextOr(text, dflt) == IF text = <<>> THEN dflt ELSE text

\* the welcome message of generate-project-summary, by its parts
WelcomeMessage(in) ==
    <<"Welcome to ", in.projectName,
      IF in.githubSuccess THEN <<"GitHub Repository: ", in.repositoryUrl>>
                          ELSE <<"GitHub: Setup failed">>,
      IF in.driveSuccess THEN <<"Google Drive Folder: ", in.driveFolderUrl>>
                         ELSE <<"Google Drive: Setup failed">>,
      IF in.slackSuccess THEN <<"Slack Channel: #", in.channelName>>
                         ELSE <<"Slack: Setup failed">>,
      "Team Members: ", in.teamMembers,
      "Deadline: ", OrDefault(in.deadline, "To be determined"),
      "Priority: ", <<"toUpperCase", in.priority>>,
      "Tech Stack: ", TextOr(in.techStack, <<"Not specified">>)>>

\* variant: the links are given whatever the success flags say
SetupLinks_Always(in) ==
    [github |-> Some(in.repositoryUrl),
     googleDrive |-> Some(in.driveFolderUrl),
     slack |-> Some(<<"slack://channel?team=YOUR_TEAM&id=", in.channelId>>)]

\* setupLinks: a link for each platform whose success flag is true
SetupLinks(in) ==
    [github |-> IF in.githubSuccess THEN Some(in.repositoryUrl) ELSE None,
     googleDrive |-> IF in.driveSuccess THEN Some(in.driveFolderUrl) ELSE None,
     slack |-> IF in.slackSuccess
               THEN Some(<<"slack://channel?team=YOUR_TEAM&id=", in.channelId>>)
               ELSE None]

\* Step 5: generate-project-summary
generateProjectSummary(in, text) ==
    [projectSummary |-> text,
     welcomeMessage |-> WelcomeMessage(in),
     onboardingComplete |-> TRUE,
     setupLinks |-> SetupLinks(in),
     projectId |-> in.projectId]

-----------------------------------------------------------------------------
(* projectOnboardingWorkflow: the run                                      *)

\* createRun().start({ inputData }); mastra holds the agent or does not
StartOnboarding(r, inputs) ==
    /\ status[r] = "Pending"
    /\ \E raw \in inputs :
          /\ input' = Upd(input, r, Some(raw))
          /\ data' = Upd(data, r, ParseProjectInput(raw))
    /\ \E agent \in {"found", "missing"} :
          ops' = Upd(ops, r, [ops[r] EXCEPT !.agent = agent])
    /\ status' = Upd(status, r, "Running")
    /\ cursor' = Upd(cursor, r, "validate-project-data")
    /\ UNCHANGED <<local, checkpoint, output, error, events, trace>>

ValidateProjectData(r) ==
    /\ status[r] = "Running"
    /\ cursor[r] = "validate-project-data"
    /\ trace' = Upd(trace, r, Append(trace[r], "validate-project-data"))
    /\ \E projectId \in ProjectIds, createdAt \in Timestamps :
          data' = Upd(data, r, validateProjectData(data[r], projectId, createdAt))
    /\ cursor' = Upd(cursor, r, "create-github-repo")
    /\ UNCHANGED <<status, local, checkpoint, output, error, events, ops, input>>

\* the outcome of one `await agent.generate(prompt, ...)`
AgentCall(r, stepId, ok) ==
    ops' = Upd(ops, r, [ops[r] EXCEPT !.calls = Append(@, [step |-> stepId, ok |-> ok])])

\* variant: the agent call is not inside a try block
PlatformStep_NoCatch(r, stepId, enabled, created, notCreated, next) ==
    /\ status[r] = "Running"
    /\ cursor[r] = stepId
    /\ trace' = Upd(trace, r, Append(trace[r], stepId))
    /\ IF ops[r].agent # "found"
       THEN /\ Throw(r, "Project Assistant agent not found")
            /\ UNCHANGED <<data, cursor, ops>>
       ELSE IF ~enabled
            THEN /\ data' = Upd(data, r, notCreated)
                 /\ cursor' = Upd(cursor, r, next)
                 /\ UNCHANGED <<ops, status, error>>
            ELSE \E ok \in BOOLEAN :
                    /\ AgentCall(r, stepId, ok)
                    /\ IF ok
                       THEN /\ \E out \in created : data' = Upd(data, r, out)
                            /\ cursor' = Upd(cursor, r, next)
                            /\ UNCHANGED <<status, error>>
                       ELSE /\ Throw(r, "agent.generate rejected")
                            /\ UNCHANGED <<data, cursor>>
    /\ UNCHANGED <<local, checkpoint, output, events, input>>

\* the common shape of steps 2 to 4: the agent is looked up (and its absence
\* thrown) before the try block; a platform that is off returns at once;
\* the agent call is inside the try block, its failure caught
PlatformStep(r, stepId, enabled, created, notCreated, next) ==
    /\ status[r] = "Running"
    /\ cursor[r] = stepId
    /\ trace' = Upd(trace, r, Append(trace[r], stepId))
    /\ IF ops[r].agent # "found"
       THEN /\ Throw(r, "Project Assistant agent not found")
            /\ UNCHANGED <<data, cursor, ops>>
       ELSE /\ IF ~enabled
               THEN /\ data' = Upd(data, r, notCreated)
                    /\ UNCHANGED ops
               ELSE \E ok \in BOOLEAN :
                       /\ AgentCall(r, stepId, ok)
                       /\ \E out \in (IF ok THEN created ELSE {notCreated}) :
                             data' = Upd(data, r, out)
            /\ cursor' = Upd(cursor, r, next)
            /\ UNCHANGED <<status, error>>
    /\ UNCHANGED <<local, checkpoint, output, events, input>>

CreateGitHubRepository(r) ==
    PlatformStep(r, "create-github-repo", data[r].platforms.github,
                 {GitHubCreated(data[r])}, GitHubNotCreated(data[r]),
                 "create-google-drive-folder")

\* variant: create-slack-channel is not chained after this step
CreateGoogleDriveFolder_SkipsSlack(r) ==
    PlatformStep(r, "create-google-drive-folder", data[r].platforms.googleDrive,
                 {DriveCreated(data[r])}, DriveNotCreated(data[r]),
                 "generate-project-summary")

CreateGoogleDriveFolder(r) ==
    PlatformStep(r, "create-google-drive-folder", data[r].platforms.googleDrive,
                 {DriveCreated(data[r])}, DriveNotCreated(data[r]),
                 "create-slack-channel")

CreateSlackChannel(r) ==
    PlatformStep(r, "create-slack-channel", data[r].platforms.slack,
                 {SlackCreated(data[r], channelId) : channelId \in ChannelIds},
                 SlackNotCreated(data[r]),
                 "generate-project-summary")

SummaryTexts == {<<"Project summary">>}

\* generate-project-summary: the agent call is not inside a try block; the
\* value returned is the output of the workflow
GenerateProjectSummary(r) ==
    /\ status[r] = "Running"
    /\ cursor[r] = "generate-project-summary"
    /\ trace' = Upd(trace, r, Append(trace[r], "generate-project-summary"))
    /\ IF ops[r].agent # "found"
       THEN /\ Throw(r, "Project Assistant agent not found")
            /\ UNCHANGED <<data, cursor, ops, output>>
       ELSE \E ok \in BOOLEAN :
               /\ AgentCall(r, "generate-project-summary", ok)
               /\ IF ok
                  THEN \E text \in SummaryTexts :
                          /\ data' = Upd(data, r, generateProjectSummary(data[r], text))
                          /\ output' = Upd(output, r,
                                 Some(generateProjectSummary(data[r], text)))
                          /\ status' = Upd(status, r, "Succeeded")
                          /\ cursor' = Upd(cursor, r, "done")
                          /\ UNCHANGED error
                  ELSE /\ Throw(r, "agent.generate rejected")
                       /\ UNCHANGED <<data, cursor, output>>
    /\ UNCHANGED <<local, checkpoint, events, input>>

OnboardingStep(r) ==
    \/ ValidateProjectData(r)
    \/ CreateGitHubRepository(r)
    \/ CreateGoogleDriveFolder(r)
    \/ CreateSlackChannel(r)
    \/ GenerateProjectSummary(r)

\* the inputs of the single-run specifications: the platform flags vary
\* with the other fields fixed, the other fields vary with the flags absent
SoloProjectInputs ==
    {raw \in ProjectInputs :
        \/ /\ raw.projectName = <<"A", "p", "1">>
           /\ raw.teamMembers = <<"a@x.io">>
           /\ raw.techStack = None /\ raw.deadline = None /\ raw.priority = None
        \/ raw.platforms = None}

NextOnboarding == \E r \in SoloRuns : StartOnboarding(r, SoloProjectInputs) \/ OnboardingStep(r)

\* one run of projectOnboardingWorkflow
SpecOnboarding == Init /\ [][NextOnboarding]_vars

\* one run of either workflow
NextEither == Next \/ NextOnboarding

SpecEither == Init /\ [][NextEither]_vars

IsOnboarding(r) == Started(r) /\ "teamMembers" \in DOMAIN input[r][1]

IsResearch(r) == Started(r) /\ "query" \in DOMAIN input[r][1]

-----------------------------------------------------------------------------
(* C14: a step that throws                                                 *)

\* an execute function of run r threw: generateText rejected in
\* analyze-results, the agent was not found by create-github-repo, or the
\* agent call of generate-project-summary rejected
Thrown(r) ==
    \/ ops[r].text = "throws"
    \/ ops[r].agent = "missing" /\ InTrace(r, "create-github-repo")
    \/ \E i \in DOMAIN ops[r].calls :
          ops[r].calls[i] = [step |-> "generate-project-summary", ok |-> FALSE]

\* the run failed in the execute function of the step at the cursor, which
\* was entered once and is the last node entered; no output was produced
FailedInStep(r) ==
    /\ status[r] = "Failed"
    /\ error[r] # None
    /\ error[r][1].stepId = cursor[r]
    /\ error[r][1].stepId = Last(trace[r])
    /\ Count(trace[r], cursor[r]) = 1
    /\ error[r][1].message \in {"generateText rejected",
                                "Project Assistant agent not found",
                                "agent.generate rejected"}
    /\ Cardinality({i \in DOMAIN ops[r].calls : ops[r].calls[i].step = cursor[r]}) <= 1
    /\ output[r] = None
    /\ local[r] = None

\* C14: when an execute function throws, the run is Failed with the error
\* and the id of the step that threw, that step was entered once, and the
\* run takes no further step (no later node, no retry)
C14_ThrowFailsRun ==
    [][\A r \in RunIds :
          /\ Thrown(r)' => FailedInStep(r)'
          /\ (status[r] = "Failed" /\ error[r][1].message # "invalid input")'
                => (Thrown(r) /\ FailedInStep(r))'
          /\ status[r] = "Failed" => RunState(r)' = RunState(r)]_vars

\* an onboarding run whose agent is not found fails in create-github-repo,
\* after validate-project-data and before any agent call
C14_Witness ==
    \E r \in RunIds :
        /\ IsOnboarding(r)
        /\ FailedInStep(r)
        /\ error[r] = Some([stepId |-> "create-github-repo",
                            message |-> "Project Assistant agent not found"])
        /\ trace[r] = <<"validate-project-data", "create-github-repo">>
        /\ ops[r].calls = <<>>
        /\ "projectId" \in DOMAIN data[r]

-----------------------------------------------------------------------------
(* C15: a platform step that fails                                         *)

OnboardingSteps ==
    <<"validate-project-data", "create-github-repo", "create-google-drive-folder",
      "create-slack-channel", "generate-project-summary">>

PlatformSteps == {"create-github-repo", "create-google-drive-folder", "create-slack-channel"}

\* the success flag and the resource handles a platform step adds
SuccessFlag(stepId) ==
    CASE stepId = "create-github-repo" -> "githubSuccess"
      [] stepId = "create-google-drive-folder" -> "driveSuccess"
      [] stepId = "create-slack-channel" -> "slackSuccess"

Handles(stepId) ==
    CASE stepId = "create-github-repo" -> {"repositoryUrl", "repositoryName"}
      [] stepId = "create-google-drive-folder" -> {"driveFolderUrl", "driveFolderId"}
      [] stepId = "create-slack-channel" -> {"channelName", "channelId"}

\* the agent call of the platform step rejected
CallFailed(r, stepId) ==
    \E i \in DOMAIN ops[r].calls : ops[r].calls[i] = [step |-> stepId, ok |-> FALSE]

\* the platform step has returned
Returned15(r, stepId) == InTrace(r, stepId) /\ cursor[r] # stepId

\* the statement as claimed: no run fails in a platform step
C15_Original ==
    \A r \in RunIds :
        IsOnboarding(r) /\ status[r] = "Failed" => error[r][1].stepId \notin PlatformSteps

\* C15: a platform step whose agent call rejected returns with its success
\* flag false and its handles empty and does not fail the run; with the
\* agent found, whatever agent calls rejected, the steps run in order, a
\* Running run always has its next step to take, and the run can fail only
\* in generate-project-summary; with the agent not found the run fails in
\* create-github-repo
C15_PlatformFailureDegrades ==
    \A r \in RunIds : IsOnboarding(r) =>
        /\ IsPrefix(trace[r], OnboardingSteps)
        /\ \A s \in PlatformSteps :
              /\ CallFailed(r, s) => InTrace(r, s) /\ cursor[r] # s
              /\ CallFailed(r, s) /\ status[r] # "Succeeded" =>
                    /\ data[r][SuccessFlag(s)] = FALSE
                    /\ \A h \in Handles(s) : data[r][h] = <<>>
                    /\ status[r] = "Failed" => error[r][1].stepId = "generate-project-summary"
        /\ ops[r].agent = "found" =>
              /\ status[r] = "Running" => ENABLED OnboardingStep(r)
              /\ status[r] = "Failed" =>
                    /\ error[r][1].stepId = "generate-project-summary"
                    /\ trace[r] = OnboardingSteps
              /\ status[r] = "Succeeded" => trace[r] = OnboardingSteps
        /\ ops[r].agent = "missing" /\ InTrace(r, "create-github-repo") =>
              /\ status[r] = "Failed"
              /\ error[r][1].stepId = "create-github-repo"

\* the three agent calls of the platform steps rejected and the run went on
\* to succeed in generate-project-summary with no link
C15_Witness ==
    \E r \in RunIds :
        /\ IsOnboarding(r)
        /\ status[r] = "Succeeded"
        /\ \A s \in PlatformSteps : CallFailed(r, s)
        /\ trace[r] = OnboardingSteps
        /\ output[r][1].onboardingComplete
        /\ output[r][1].setupLinks = [github |-> None, googleDrive |-> None, slack |-> None]

-----------------------------------------------------------------------------
(* C17: one node in flight                                                 *)

\* the sub-searches launched and not yet settled
PendingSearches(r) == {p \in Platforms : ops[r].search[p] = "pending"}

\* the node of run r that has been entered and has not returned
InFlight(r) == IF local[r] # None THEN {cursor[r]} ELSE {}

\* C17: the sub-searches of search-documents are the only operations of a
\* run pending together, and only while search-documents is the node in
\* flight; a node is entered only when no node is in flight and no
\* sub-search is pending; the branch selects one target; publish-report
\* handles its channels one after the other; an onboarding run enters its
\* steps one at a time in declaration order
C17_OneNodeInFlight ==
    [][\A r \in RunIds :
          /\ (PendingSearches(r) # {} =>
                /\ status[r] = "Running"
                /\ InFlight(r) = {"search-documents"}
                /\ Last(trace[r]) = "search-documents")'
          /\ (InFlight(r) # {} =>
                /\ status[r] = "Running"
                /\ InFlight(r) \subseteq {"search-documents", "publish-report"}
                /\ Last(trace[r]) = cursor[r])'
          /\ (InFlight(r) = {"publish-report"} =>
                Len(ops[r].publish) = local[r][1].i - 1)'
          /\ trace'[r] # trace[r] =>
                /\ InFlight(r) = {}
                /\ PendingSearches(r) = {}
                /\ \E id \in Range(trace'[r]) : trace'[r] = Append(trace[r], id)
          /\ cursor[r] = "branch" => Cardinality(BranchSelected(data[r])) = 1
          /\ (IsOnboarding(r) =>
                /\ InFlight(r) = {}
                /\ IsPrefix(trace[r], OnboardingSteps))']_vars

\* search-documents in flight with one sub-search settled and two pending
C17_Witness ==
    \E r \in RunIds :
        /\ InFlight(r) = {"search-documents"}
        /\ PendingSearches(r) = {"github", "slack"}
        /\ ops[r].search["google-drive"] = "ok"
        /\ trace[r] = <<"search-documents">>
        /\ local[r][1].results.googleDriveResults # <<>>

-----------------------------------------------------------------------------
(* Two runs side by side                                                   *)

\* the first run asks for approval (requireApproval left to its default)
\* and searches github; the second is an auto-approve run on another query
\* or an onboarding run
PairInputs(r) ==
    {raw \in WorkflowInputs :
        IF r = "r1"
        THEN raw = [query |-> "X", platforms |-> Some({"github"}),
                    requireApproval |-> None, publishChannels |-> None]
        ELSE raw = [query |-> "Y", platforms |-> Some({"slack"}),
                    requireApproval |-> Some(FALSE),
                    publishChannels |-> Some(<<"email">>)]}

PairProjectInputs(r) ==
    {raw \in ProjectInputs :
        /\ r = "r2"
        /\ raw.projectName = <<" ", "A", "!", "!", "p", " ">>
        /\ raw.teamMembers = <<"a@x.io">>
        /\ raw.techStack = None /\ raw.deadline = None /\ raw.priority = None
        /\ raw.platforms = Some([github |-> None, slack |-> Some(FALSE),
                                 googleDrive |-> Some(TRUE)])}

\* the steps of the runs interleave in any order
NextPair ==
    \E r \in RunIds :
        \/ Start(r, PairInputs(r))
        \/ Step(r)
        \/ StartOnboarding(r, PairProjectInputs(r))
        \/ OnboardingStep(r)

SpecPair == Init /\ [][NextPair]_vars

-----------------------------------------------------------------------------
(* C18: a suspended run is parked                                          *)

\* suspend() was called and no resume was accepted since
AwaitingResume(r) == ops[r].suspends > 0 /\ ops[r].resume = None

\* the step taken is the acceptance of a resume by run r: human-approval is
\* entered again, the checkpoint is kept
ResumeAccepted(r) ==
    /\ ops[r].resume = None
    /\ ops'[r].resume # None
    /\ status'[r] = "Running"
    /\ trace'[r] = Append(trace[r], "human-approval")
    /\ checkpoint'[r] = checkpoint[r]

\* C18: from the call of suspend() until a resume is accepted the run is
\* Suspended at human-approval with its checkpoint, and whatever other runs
\* do, every step leaves its status, checkpoint, node sequence and all the
\* rest of its state as they are; the only step that moves it is the
\* acceptance of a resume
C18_Parked ==
    [][\A r \in RunIds :
          /\ (AwaitingResume(r) <=> status[r] = "Suspended")'
          /\ (status[r] = "Suspended" =>
                /\ cursor[r] = "human-approval"
                /\ checkpoint[r] # None
                /\ checkpoint[r][1].payload = SuspendPayload(data[r])
                /\ InFlight(r) = {}
                /\ output[r] = None)'
          /\ status[r] = "Suspended" =>
                RunState(r)' = RunState(r) \/ ResumeAccepted(r)]_vars

\* the first run is still Suspended with its checkpoint after the second
\* run, started later, ran to its end
C18_Witness ==
    /\ status["r1"] = "Suspended"
    /\ checkpoint["r1"] # None
    /\ status["r2"] = "Succeeded"
    /\ IsResearch("r2")
    /\ trace["r1"] = <<"search-documents", "analyze-results", "create-report",
                       "human-approval">>
    /\ output["r1"] = None

-----------------------------------------------------------------------------
(* C19: runs do not interfere                                              *)

\* the nodes a document-research run enters, by the requireApproval of its
\* own input
ResearchPath(r) ==
    IF OrDefault(input[r][1].requireApproval, TRUE)
    THEN <<"search-documents", "analyze-results", "create-report",
           "human-approval", "human-approval", "normalize-branch-output",
           "publish-report">>
    ELSE C1Path

\* the state of run r is what its own input and the outcomes of its own
\* external operations give
AsAlone(r) ==
    /\ IsResearch(r) =>
          /\ IsPrefix(trace[r], ResearchPath(r))
          /\ AfterSearch(r) => data[r] = ExpectedSearchOutput(r)
          /\ status[r] = "Suspended" =>
                checkpoint[r][1].payload.reportTitle = ReportTitle(input[r][1].query)
          /\ status[r] = "Succeeded" => output[r] = Some(AutoApprovedOutput(r))
          /\ status[r] = "Bailed" => BailedAtPublish(r)
          /\ status[r] = "Failed" =>
                error[r][1].stepId = cursor[r] /\ ~TextOk(r)
          /\ ops[r].agent = "unasked" /\ ops[r].calls = <<>>
    /\ IsOnboarding(r) =>
          /\ IsPrefix(trace[r], OnboardingSteps)
          /\ status[r] = "Running" /\ InTrace(r, "validate-project-data") =>
                /\ data[r].slug = Slug(input[r][1].projectName)
                /\ data[r].projectName = input[r][1].projectName
          /\ status[r] = "Succeeded" =>
                /\ output[r][1].projectId \in ProjectIds
                /\ output[r][1].welcomeMessage[2] = input[r][1].projectName
                /\ \A i \in DOMAIN ops[r].calls : ops[r].calls[i].ok =>
                      ops[r].calls[i].step = "generate-project-summary"
                      \/ output[r][1].setupLinks[
                            CASE ops[r].calls[i].step = "create-github-repo" -> "github"
                              [] ops[r].calls[i].step = "create-google-drive-folder" -> "googleDrive"
                              [] ops[r].calls[i].step = "create-slack-channel" -> "slack"] # None
          /\ status[r] = "Failed" => Thrown(r) /\ FailedInStep(r)
          /\ ops[r].search = NoOps.search /\ ops[r].text = "none"
          /\ ops[r].publish = <<>> /\ ops[r].resume = None /\ ops[r].suspends = 0
          /\ events[r] = <<>> /\ checkpoint[r] = None
    /\ ~Started(r) => RunState(r) = <<"Pending", "start", None, None, None, None,
                                      None, <<>>, <<>>, NoOps, None>>

\* C19: with the steps of two runs interleaved in any order, every step
\* changes the state of one run only, and each run's node sequence, data,
\* status and output are those its own input and its own external outcomes
\* give, as in a run alone
C19_NoInterference ==
    /\ [](\A r \in RunIds : AsAlone(r))
    /\ [][\E r \in RunIds : \A q \in RunIds \ {r} : RunState(q)' = RunState(q)]_vars

\* both runs of document-research ended, each with the report of its own
\* query: the first bailed after a rejection, the second published by mail
C19_Witness ==
    /\ status["r1"] = "Bailed"
    /\ status["r2"] = "Succeeded"
    /\ IsResearch("r2")
    /\ output["r1"][1].reportTitle = ReportTitle("X")
    /\ output["r2"][1].reportTitle = ReportTitle("Y")
    /\ output["r2"][1].publishedChannels = <<"email">>
    /\ Len(events["r1"]) > 0 /\ Len(events["r2"]) > 0

-----------------------------------------------------------------------------
(* C21: nothing is published without approval                              *)

\* a publishing operation was called, or a publishing event written
PublishingAttempted(r) ==
    \/ ops[r].publish # <<>>
    \/ \E i \in DOMAIN events[r] : events[r][i].type = "publishing"

\* C21: createGoogleDoc, postToSlack or sendEmail is called only in a run
\* whose input has requireApproval:false, or after the run suspended at
\* human-approval and a resume with approved:true was accepted; an input
\* without requireApproval is parsed to true, never takes auto-approve, and
\* suspends before anything is published
C21_PublicationSafety ==
    \A r \in RunIds : Started(r) =>
        /\ PublishingAttempted(r) =>
              \/ input[r][1].requireApproval = Some(FALSE)
              \/ ops[r].suspends = 1 /\ ResumedApproved(r)
        /\ input[r][1].requireApproval # Some(FALSE) =>
              /\ ~InTrace(r, "auto-approve")
              /\ (cursor[r] \in {"normalize-branch-output", "publish-report", "map", "done"})
                    => (ops[r].suspends = 1 /\ Resumed(r))
              /\ status[r] = "Suspended" => ~PublishingAttempted(r)
        /\ (/\ input[r][1].requireApproval = None
            /\ InTrace(r, "search-documents")
            /\ "requireApproval" \in DOMAIN data[r]) => data[r].requireApproval = TRUE

\* an input without requireApproval: the run suspended, was resumed with
\* approved:true and then published to google-drive
C21_Witness ==
    \E r \in RunIds :
        /\ Started(r)
        /\ input[r][1].requireApproval = None
        /\ ops[r].suspends = 1
        /\ ResumedApproved(r)
        /\ ops[r].publish = <<[channel |-> "google-drive", ok |-> TRUE]>>
        /\ status[r] = "Succeeded"

-----------------------------------------------------------------------------
(* C22: the text completion does not steer the run                         *)

\* requireApproval and publishChannels of the input, with their defaults
InputRequireApproval(r) == OrDefault(input[r][1].requireApproval, TRUE)

InputChannels(r) == OrDefault(input[r][1].publishChannels, <<"google-drive">>)

\* C22: whatever text generateText returned, JSON with keys query,
\* requireApproval and publishChannels included, the record the branch
\* guards read has the requireApproval of the input (default true) and the
\* target entered is the one that value selects; the channels publish-report
\* iterates, and the channels of the operations it calls, are the
\* publishChannels of the input (default google-drive); the query of the
\* record stays the query of the input
C22_TextCannotSteer ==
    \A r \in RunIds : Started(r) /\ ops[r].text # "none" =>
        /\ "requireApproval" \in DOMAIN data[r] =>
              data[r].requireApproval = InputRequireApproval(r)
        /\ "query" \in DOMAIN data[r] => data[r].query = input[r][1].query
        /\ ("publishChannels" \in DOMAIN data[r] /\ status[r] # "Succeeded") =>
              data[r].publishChannels = input[r][1].publishChannels
        /\ InTrace(r, "human-approval") => InputRequireApproval(r)
        /\ InTrace(r, "auto-approve") => ~InputRequireApproval(r)
        /\ (cursor[r] = "publish-report" /\ local[r] # None) =>
              local[r][1].channels = InputChannels(r)
        /\ Len(ops[r].publish) <= Len(InputChannels(r))
        /\ \A i \in DOMAIN ops[r].publish :
              ops[r].publish[i].channel = InputChannels(r)[i]

\* the completion returned JSON naming requireApproval:false and email as
\* channel; the run, started without either field, still suspended for
\* approval and then published to google-drive
C22_Witness ==
    \E r \in RunIds :
        /\ ops[r].text = "json-inject"
        /\ input[r][1].requireApproval = None
        /\ input[r][1].publishChannels = None
        /\ ops[r].suspends = 1
        /\ cursor[r] = "publish-report"
        /\ local[r] # None
        /\ ops[r].publish = <<[channel |-> "google-drive", ok |-> TRUE]>>

-----------------------------------------------------------------------------
(* C23: the merge step                                                     *)

\* normalize-branch-output is the next node to be entered
AtMerge(r) == status[r] = "Running" /\ cursor[r] = "normalize-branch-output"

\* the branch target run r entered
TargetRan(r) ==
    {t \in {"human-approval", "auto-approve"} : InTrace(r, t)}

\* the step taken is normalize-branch-output returning the four fields of
\* the one branch result it was given
MergeReturns(r) ==
    \E t \in DOMAIN data[r] :
        /\ DOMAIN data'[r] = {"approved", "reportTitle", "reportContent", "publishChannels"}
        /\ data'[r].approved = data[r][t].approved
        /\ data'[r].reportTitle = data[r][t].reportTitle
        /\ data'[r].reportContent = data[r][t].reportContent
        /\ data'[r].publishChannels = data[r][t].publishChannels
        /\ status'[r] = "Running"
        /\ cursor'[r] = "publish-report"

\* C23: normalize-branch-output is entered with the output of one branch
\* target, the one that ran (human-approval when requireApproval is true,
\* auto-approve otherwise), returns that target's approved, reportTitle,
\* reportContent and publishChannels, and never fails with "No branch
\* result found"
C23_MergeOneBranch ==
    /\ [](\A r \in RunIds :
            /\ AtMerge(r) =>
                  /\ DOMAIN data[r] = TargetRan(r)
                  /\ DOMAIN data[r] = {IF InputRequireApproval(r)
                                       THEN "human-approval" ELSE "auto-approve"}
                  /\ \A t \in DOMAIN data[r] :
                        data[r][t].approved = (t = "auto-approve" \/ ResumedApproved(r))
            /\ error[r] # None => error[r][1].message # "No branch result found"
            /\ Count(trace[r], "normalize-branch-output") <= 1)
    /\ [][\A r \in RunIds : AtMerge(r) /\ RunState(r)' # RunState(r) => MergeReturns(r)]_vars

\* the merge step returned the rejection and the edited content that
\* human-approval produced
C23_Witness ==
    \E r \in RunIds :
        /\ cursor[r] = "publish-report"
        /\ Last(trace[r]) = "normalize-branch-output"
        /\ TargetRan(r) = {"human-approval"}
        /\ data[r].approved = FALSE
        /\ data[r].reportContent = <<"edited">>
        /\ data[r].publishChannels = Some(<<"slack">>)

-----------------------------------------------------------------------------
(* C24: publishing with failing channels                                   *)

\* the report of run r was approved: by auto-approve or by the resume
Approved(r) == InTrace(r, "auto-approve") \/ ResumedApproved(r)

\* publish-report has returned
Published24(r) == InTrace(r, "publish-report") /\ cursor[r] \in {"map", "done"}

\* the channels whose publishing operation was called, in call order
Attempted(r) == [i \in DOMAIN ops[r].publish |-> ops[r].publish[i].channel]

\* those of them whose operation succeeded, in call order
RECURSIVE OkChannels(_)
OkChannels(calls) ==
    IF calls = <<>> THEN <<>>
    ELSE (IF Head(calls).ok THEN <<Head(calls).channel>> ELSE <<>>) \o OkChannels(Tail(calls))

\* C24: publish-report entered with an approved report never fails the
\* run; when it has returned, every channel of the input (google-drive when
\* the input names none) was attempted once, in request order, whatever
\* failed before; publishedChannels is the channels whose operation
\* succeeded, in that order; published, and success in the final output,
\* hold exactly when publishedChannels is not empty
C24_PublishDegrades ==
    \A r \in RunIds : Started(r) /\ Approved(r) /\ InTrace(r, "publish-report") =>
        /\ status[r] \in {"Running", "Succeeded"}
        /\ error[r] = None
        /\ IsPrefix(Attempted(r), InputChannels(r))
        /\ (status[r] = "Running" /\ cursor[r] = "publish-report") =>
              ENABLED (PublishChannel(r) \/ PublishFinish(r))
        /\ Published24(r) =>
              /\ Attempted(r) = InputChannels(r)
              /\ cursor[r] = "map" =>
                    /\ data[r].publishedChannels = OkChannels(ops[r].publish)
                    /\ data[r].published = (OkChannels(ops[r].publish) # <<>>)
                    /\ Len(data[r].urls) =
                          Count(OkChannels(ops[r].publish), "google-drive")
              /\ cursor[r] = "done" =>
                    /\ status[r] = "Succeeded"
                    /\ output[r][1].publishedChannels = OkChannels(ops[r].publish)
                    /\ output[r][1].success = (OkChannels(ops[r].publish) # <<>>)

\* slack failed, email was still attempted and succeeded: the run succeeded
\* with email as its only published channel
C24_Witness ==
    \E r \in RunIds :
        /\ status[r] = "Succeeded"
        /\ ops[r].publish = <<[channel |-> "slack", ok |-> FALSE],
                              [channel |-> "email", ok |-> TRUE]>>
        /\ output[r][1].publishedChannels = <<"email">>
        /\ output[r][1].success

-----------------------------------------------------------------------------
(* simpleDemoWorkflow: schemas and steps                                   *)

\* team sizes on both sides of the thresholds 2 and 5, and the two ends of
\* z.number().min(1).max(100)
TeamSizes == {1, 2, 3, 5, 6, 100}

\* the records the projectInputSchema of simple-demo accepts
DemoInputs ==
    [projectName : ProjectNames,
     description : {"A description of the demo"},
     teamSize : TeamSizes,
     priority : {None, Some("low"), Some("medium"), Some("high")}]

\* parse by the schema: priority defaults to medium
ParseDemoInput(raw) ==
    [projectName |-> raw.projectName,
     description |-> raw.description,
     teamSize |-> raw.teamSize,
     priority |-> OrDefault(raw.priority, "medium")]

\* baseDays: 30, adjusted for the team size, then for the priority with
\* Math.floor(baseDays * 0.8) and Math.floor(baseDays * 1.2)
EstimatedDays(teamSize, priority) ==
    LET baseDays == IF teamSize <= 2 THEN 30 + 20
                    ELSE IF teamSize <= 5 THEN 30 + 10
                    ELSE 30 - 5
    IN  CASE priority = "high" -> (baseDays * 8) \div 10
          [] priority = "low" -> (baseDays * 12) \div 10
          [] OTHER -> baseDays

\* Step 1: process-project-data
processProjectData(in, projectId, createdAt) ==
    Spread(in, [projectId |-> projectId,
                slug |-> Slug(in.projectName),
                estimatedDuration |-> <<EstimatedDays(in.teamSize, in.priority), " days">>,
                createdAt |-> createdAt])

Phases ==
    <<"Project Initiation", "Requirements Gathering", "Design & Planning",
      "Development", "Testing", "Deployment", "Project Closure">>

Milestones ==
    <<"Requirements approved (Week 1)", "Design completed (Week 2)",
      "MVP ready (Week 4)", "Testing completed (Week 6)",
      "Production deployment (Week 8)">>

Risks(in) ==
    (IF in.teamSize <= 2 THEN <<"Small team may face capacity constraints">> ELSE <<>>)
    \o (IF in.priority = "high"
        THEN <<"Tight timeline may impact quality", "Increased pressure on team members">>
        ELSE <<>>)
    \o <<"Scope creep during development", "Integration challenges">>

\* variant: the plan is returned without the slug of the input
createProjectPlan_DropsSlug(in) ==
    LET kept == [k \in DOMAIN in \ {"slug"} |-> in[k]]
    IN  Spread(kept, [phases |-> Phases, milestones |-> Milestones, risks |-> Risks(in)])

\* Step 2: create-project-plan
createProjectPlan(in) ==
    Spread(in, [phases |-> Phases, milestones |-> Milestones, risks |-> Risks(in)])

\* items.map((x, i) => `${i + 1}. ${x}`)
Numbered(items) == [i \in DOMAIN items |-> <<i, ". ", items[i]>>]

Recommendations(in) ==
    (IF in.teamSize <= 2
     THEN <<"Consider adding additional team members to reduce delivery risk">>
     ELSE <<>>)
    \o (IF in.priority = "high"
        THEN <<"Implement daily standup meetings for close progress monitoring",
               "Consider splitting into smaller, deliverable chunks">>
        ELSE <<>>)
    \o <<"Set up regular stakeholder check-ins",
         "Document all decisions and changes",
         "Plan for regular testing cycles throughout development">>

\* Step 3: generate-project-report; `now` is the clock read for the
\* "Generated on" line
generateProjectReport(in, now) ==
    [projectId |-> in.projectId,
     projectName |-> in.projectName,
     report |-> <<"Name", in.projectName, "ID", in.projectId,
                  "Description", in.description,
                  "Team Size", in.teamSize,
                  "Priority", <<"toUpperCase", in.priority>>,
                  "Estimated Duration", in.estimatedDuration,
                  "Created", <<"toLocaleDateString", in.createdAt>>,
                  "Project Phases", Numbered(in.phases),
                  "Key Milestones", Numbered(in.milestones),
                  "Risk Assessment", Numbered(in.risks),
                  "Generated on", <<"toLocaleString", now>>>>,
     summary |-> <<"Project ", in.projectName, " is a ", in.priority,
                   " priority initiative requiring ", in.teamSize,
                   " team members and an estimated ", in.estimatedDuration,
                   " to complete. The project includes ", Len(in.phases),
                   " phases and ", Len(in.milestones), " key milestones.">>,
     recommendations |-> Recommendations(in)]

-----------------------------------------------------------------------------
(* simpleDemoWorkflow: the run                                             *)

StartDemo(r, inputs) ==
    /\ status[r] = "Pending"
    /\ \E raw \in inputs :
          /\ input' = Upd(input, r, Some(raw))
          /\ data' = Upd(data, r, ParseDemoInput(raw))
    /\ status' = Upd(status, r, "Running")
    /\ cursor' = Upd(cursor, r, "process-project-data")
    /\ UNCHANGED <<local, checkpoint, output, error, events, trace, ops>>

ProcessProjectData(r) ==
    /\ status[r] = "Running"
    /\ cursor[r] = "process-project-data"
    /\ trace' = Upd(trace, r, Append(trace[r], "process-project-data"))
    /\ \E projectId \in ProjectIds, createdAt \in Timestamps :
          data' = Upd(data, r, processProjectData(data[r], projectId, createdAt))
    /\ cursor' = Upd(cursor, r, "create-project-plan")
    /\ UNCHANGED <<status, local, checkpoint, output, error, events, ops, input>>

CreateProjectPlan(r) ==
    /\ status[r] = "Running"
    /\ cursor[r] = "create-project-plan"
    /\ trace' = Upd(trace, r, Append(trace[r], "create-project-plan"))
    /\ data' = Upd(data, r, createProjectPlan(data[r]))
    /\ cursor' = Upd(cursor, r, "generate-project-report")
    /\ UNCHANGED <<status, local, checkpoint, output, error, events, ops, input>>

\* the value returned is the output of the workflow
GenerateProjectReport(r) ==
    /\ status[r] = "Running"
    /\ cursor[r] = "generate-project-report"
    /\ trace' = Upd(trace, r, Append(trace[r], "generate-project-report"))
    /\ \E now \in Timestamps :
          /\ data' = Upd(data, r, generateProjectReport(data[r], now))
          /\ output' = Upd(output, r, Some(generateProjectReport(data[r], now)))
    /\ status' = Upd(status, r, "Succeeded")
    /\ cursor' = Upd(cursor, r, "done")
    /\ UNCHANGED <<local, checkpoint, error, events, ops, input>>

DemoStep(r) ==
    \/ ProcessProjectData(r)
    \/ CreateProjectPlan(r)
    \/ GenerateProjectReport(r)

NextDemo == \E r \in SoloRuns : StartDemo(r, DemoInputs) \/ DemoStep(r)

\* one run of one of the two linear workflows
NextLinear == NextOnboarding \/ NextDemo

SpecLinear == Init /\ [][NextLinear]_vars

IsDemo(r) == Started(r) /\ "teamSize" \in DOMAIN input[r][1]

-----------------------------------------------------------------------------
(* C25: the record threaded through the linear workflows                   *)

IsLinear(r) == IsOnboarding(r) \/ IsDemo(r)

\* the last steps, whose return value is the output of the workflow
FinalSteps == {"generate-project-summary", "generate-project-report"}

\* the fields a step adds to the record it is given
AddedFields(stepId) ==
    CASE stepId = "validate-project-data" -> {"projectId", "slug", "createdAt"}
      [] stepId = "create-github-repo" -> {"repositoryUrl", "repositoryName", "githubSuccess"}
      [] stepId = "create-google-drive-folder" -> {"driveFolderUrl", "driveFolderId", "driveSuccess"}
      [] stepId = "create-slack-channel" -> {"channelName", "channelId", "slackSuccess"}
      [] stepId = "process-project-data" -> {"projectId", "slug", "estimatedDuration", "createdAt"}
      [] stepId = "create-project-plan" -> {"phases", "milestones", "risks"}

\* the fields of the two final outputs
FinalFields(stepId) ==
    CASE stepId = "generate-project-summary" ->
            {"projectSummary", "welcomeMessage", "onboardingComplete", "setupLinks", "projectId"}
      [] stepId = "generate-project-report" ->
            {"projectId", "projectName", "report", "summary", "recommendations"}

\* the step at the cursor of run r returned in this transition
StepReturned(r) ==
    /\ IsLinear(r)
    /\ trace'[r] = Append(trace[r], cursor[r])
    /\ status'[r] # "Failed"

\* the record returned has every field of the record given, unchanged
KeepsInput(r) ==
    /\ DOMAIN data[r] \subseteq DOMAIN data'[r]
    /\ \A k \in DOMAIN data[r] : data'[r][k] = data[r][k]

\* the statement as claimed: every step that returns, the last one
\* included, returns every field of its input
C25_Original ==
    [][\A r \in RunIds : StepReturned(r) => KeepsInput(r)]_vars

\* C25: in project-onboarding and simple-demo every step before the last
\* returns its input with every field unchanged plus the fields it adds;
\* the last step returns the fields of the final output only, and its
\* projectId is the projectId the first step generated, carried unchanged
\* by the steps between
C25_Threading ==
    [][\A r \in RunIds : StepReturned(r) =>
          IF cursor[r] \in FinalSteps
          THEN /\ status'[r] = "Succeeded"
               /\ output'[r] = Some(data'[r])
               /\ DOMAIN data'[r] = FinalFields(cursor[r])
               /\ data'[r].projectId = data[r].projectId
               /\ data[r].projectId \in ProjectIds
          ELSE /\ KeepsInput(r)
               /\ DOMAIN data'[r] = DOMAIN data[r] \cup AddedFields(cursor[r])
               /\ AddedFields(cursor[r]) \cap DOMAIN data[r] = {}
               /\ data'[r].projectId \in ProjectIds]_vars

\* a simple-demo run succeeded with the second projectId; the slug of the
\* name was still in the record the last step was given
C25_Witness ==
    \E r \in RunIds :
        /\ IsDemo(r)
        /\ status[r] = "Succeeded"
        /\ output[r][1].projectId = "proj_2"
        /\ output[r][1].projectName = <<" ", "A", "!", "!", "p", " ">>
        /\ trace[r] = <<"process-project-data", "create-project-plan",
                        "generate-project-report">>

-----------------------------------------------------------------------------
(* C26: a platform that is off                                             *)

\* the flag of `platforms` a platform step reads
PlatformFlag(stepId) ==
    CASE stepId = "create-github-repo" -> "github"
      [] stepId = "create-google-drive-folder" -> "googleDrive"
      [] stepId = "create-slack-channel" -> "slack"

\* the input of run r gives the flag of the step as false
InputDisabled(r, stepId) ==
    /\ input[r][1].platforms # None
    /\ input[r][1].platforms[1][PlatformFlag(stepId)] = Some(FALSE)

\* the agent was asked by the step
Called(r, stepId) ==
    \E i \in DOMAIN ops[r].calls : ops[r].calls[i].step = stepId

\* a platform step whose platform is off is run in this transition
OffStepRuns(r) ==
    /\ IsOnboarding(r)
    /\ cursor[r] \in PlatformSteps
    /\ trace'[r] = Append(trace[r], cursor[r])
    /\ InputDisabled(r, cursor[r])

\* the step returned the record of a platform that is off: no call, the
\* success flag false, the handles empty, every other field unchanged
ReturnsOff(r) ==
    /\ status'[r] = "Running"
    /\ ops'[r] = ops[r]
    /\ data'[r][SuccessFlag(cursor[r])] = FALSE
    /\ \A h \in Handles(cursor[r]) : data'[r][h] = <<>>
    /\ DOMAIN data'[r] = DOMAIN data[r] \cup AddedFields(cursor[r])
    /\ KeepsInput(r)

\* the statement as claimed: the step of a platform that is off returns
\* that record, whatever else holds of the run
C26_Original ==
    [][\A r \in RunIds : OffStepRuns(r) => ReturnsOff(r)]_vars

\* C26: with the agent found, the step of a platform that is off asks the
\* agent nothing and returns its input with the success flag false and the
\* handles empty; with the agent not found it throws and returns nothing.
\* The agent is never asked by the step of a platform that is off, and a
\* success flag (and the link made from it) is true only of a platform
\* that is on and whose agent call succeeded.
C26_PlatformOff ==
    /\ [](\A r \in RunIds : IsOnboarding(r) =>
            \A s \in PlatformSteps :
               /\ InputDisabled(r, s) => ~Called(r, s)
               /\ status[r] # "Succeeded" /\ SuccessFlag(s) \in DOMAIN data[r]
                     /\ data[r][SuccessFlag(s)] =>
                        /\ ~InputDisabled(r, s)
                        /\ \E i \in DOMAIN ops[r].calls :
                              ops[r].calls[i] = [step |-> s, ok |-> TRUE]
               /\ status[r] = "Succeeded"
                     /\ output[r][1].setupLinks[PlatformFlag(s)] # None =>
                        ~InputDisabled(r, s))
    /\ [][\A r \in RunIds : OffStepRuns(r) =>
            IF ops[r].agent = "found"
            THEN ReturnsOff(r)
            ELSE /\ status'[r] = "Failed"
                 /\ ops'[r] = ops[r]
                 /\ data'[r] = data[r]]_vars

\* github is off and the other two are on: the run is past the three
\* platform steps, the agent was asked by the two steps that are on only
C26_Witness ==
    \E r \in RunIds :
        /\ IsOnboarding(r)
        /\ InputDisabled(r, "create-github-repo")
        /\ input[r][1].platforms[1].slack = Some(TRUE)
        /\ cursor[r] = "generate-project-summary"
        /\ status[r] = "Running"
        /\ data[r].githubSuccess = FALSE
        /\ data[r].repositoryUrl = <<>>
        /\ data[r].driveSuccess /\ data[r].slackSuccess
        /\ Len(ops[r].calls) = 2

-----------------------------------------------------------------------------
(* C27: the links of the final output                                      *)

\* the agent call of the platform step succeeded
CallSucceeded(r, stepId) ==
    \E i \in DOMAIN ops[r].calls : ops[r].calls[i] = [step |-> stepId, ok |-> TRUE]

\* generate-project-summary returns in this transition
SummaryReturns(r) ==
    /\ IsOnboarding(r)
    /\ cursor[r] = "generate-project-summary"
    /\ status'[r] = "Succeeded"

\* C27: when project-onboarding succeeds, setupLinks of the final output has
\* a link for a platform exactly when the success flag its step recorded is
\* true; the github link is the repositoryUrl and the googleDrive link the
\* driveFolderUrl those steps recorded, the slack link is made of the
\* channelId; in a succeeded run a link is there exactly when the agent
\* call of that platform's step succeeded
C27_LinksFollowFlags ==
    /\ [](\A r \in RunIds : IsOnboarding(r) /\ status[r] = "Succeeded" =>
            /\ output[r] # None
            /\ \A s \in PlatformSteps :
                  output[r][1].setupLinks[PlatformFlag(s)] # None <=> CallSucceeded(r, s))
    /\ [][\A r \in RunIds : SummaryReturns(r) =>
            /\ \A s \in PlatformSteps :
                  output'[r][1].setupLinks[PlatformFlag(s)] # None
                     <=> data[r][SuccessFlag(s)]
            /\ data[r].githubSuccess =>
                  output'[r][1].setupLinks.github = Some(data[r].repositoryUrl)
            /\ data[r].driveSuccess =>
                  output'[r][1].setupLinks.googleDrive = Some(data[r].driveFolderUrl)
            /\ data[r].slackSuccess =>
                  output'[r][1].setupLinks.slack =
                     Some(<<"slack://channel?team=YOUR_TEAM&id=", data[r].channelId>>)]_vars

\* a succeeded run with the github and slack links and no googleDrive link:
\* the agent call of create-google-drive-folder rejected
C27_Witness ==
    \E r \in RunIds :
        /\ IsOnboarding(r)
        /\ status[r] = "Succeeded"
        /\ output[r][1].setupLinks.github = Some(<<"https://github.com/user/", <<"a", "p", "1">> >>)
        /\ output[r][1].setupLinks.googleDrive = None
        /\ output[r][1].setupLinks.slack # None
        /\ ~CallSucceeded(r, "create-google-drive-folder")
        /\ Called(r, "create-google-drive-folder")

-----------------------------------------------------------------------------
(* C28: the order of the steps of the linear workflows                     *)

\* the .then chain of simpleDemoWorkflow
DemoSteps == <<"process-project-data", "create-project-plan", "generate-project-report">>

\* the steps of the workflow run r is a run of, in declaration order
Declared(r) == IF IsDemo(r) THEN DemoSteps ELSE OnboardingSteps

\* C28: in project-onboarding and simple-demo the nodes invoked so far are
\* an initial part of the declaration order, each once; a Running run is at
\* the node that follows the ones that returned; a Failed run failed in the
\* last node invoked; a run is Succeeded only with every node invoked, the
\* last one last; a node is invoked only by a Running run at that node
C28_DeclarationOrder ==
    /\ [](\A r \in RunIds : IsLinear(r) =>
            /\ IsPrefix(trace[r], Declared(r))
            /\ \A i, j \in DOMAIN trace[r] : trace[r][i] = trace[r][j] => i = j
            /\ status[r] = "Running" =>
                  /\ Len(trace[r]) < Len(Declared(r))
                  /\ cursor[r] = Declared(r)[Len(trace[r]) + 1]
            /\ status[r] = "Failed" =>
                  /\ trace[r] # <<>>
                  /\ error[r][1].stepId = Last(trace[r])
            /\ status[r] = "Succeeded" => trace[r] = Declared(r)
            /\ status[r] \in {"Running", "Failed", "Succeeded"})
    /\ [][\A r \in RunIds : trace'[r] # trace[r] =>
            /\ status[r] = "Running"
            /\ trace'[r] = Append(trace[r], cursor[r])
            /\ status'[r] = "Running" => Len(trace'[r]) < Len(Declared(r))
            /\ status'[r] = "Succeeded" => Len(trace'[r]) = Len(Declared(r))]_vars

\* an onboarding run succeeded after its five steps, a platform step among
\* them having had its agent call rejected
C28_Witness ==
    \E r \in RunIds :
        /\ IsOnboarding(r)
        /\ status[r] = "Succeeded"
        /\ trace[r] = OnboardingSteps
        /\ Len(ops[r].calls) = 4
        /\ ops[r].calls[3] = [step |-> "create-slack-channel", ok |-> FALSE]

-----------------------------------------------------------------------------
(* C29: a run that has ended                                               *)

\* some operation of run r can be taken: a start, a step, a settlement of a
\* sub-search, a resume
CanAct(r) ==
    \/ ENABLED Start(r, PairInputs(r))
    \/ ENABLED StartOnboarding(r, PairProjectInputs(r))
    \/ ENABLED Step(r)
    \/ ENABLED OnboardingStep(r)

-----------------------------------------------------------------------------
(* Progress of one run of any of the three workflows                       *)

NextAny == Next \/ NextLinear

\* a step the engine takes by itself once the step before it has returned;
\* resume() is the reviewer's and is not among them
EngineStep(r) ==
    \/ SearchLaunch(r)
    \/ SearchJoin(r)
    \/ Analyze(r)
    \/ CreateReport(r)
    \/ Branch(r)
    \/ ApprovalSuspend(r)
    \/ AutoApprove(r)
    \/ Normalize(r)
    \/ PublishStart(r)
    \/ PublishChannel(r)
    \/ PublishFinish(r)
    \/ MapFinal(r)
    \/ OnboardingStep(r)
    \/ DemoStep(r)

\* the engine goes on with a run that has a step to take, and every
\* sub-search that was launched settles
Fairness ==
    \A r \in SoloRuns :
        /\ WF_vars(EngineStep(r))
        /\ \A p \in Platforms : WF_vars(SubSearchSettle(r, p))

SpecFair == Init /\ [][NextAny]_vars /\ Fairness

-----------------------------------------------------------------------------
(* C30: progress                                                           *)

\* C30: when the engine goes on and every sub-search settles, a Running run
\* becomes Suspended, Succeeded, Failed or Bailed; and while a sub-search of
\* a run is pending the run is Running at search-documents, the join cannot
\* be taken and analyze-results has not been entered
C30_Progress ==
    /\ \A r \in RunIds :
          (status[r] = "Running") ~> (status[r] \in Terminal \cup {"Suspended"})
    /\ [](\A r \in RunIds : PendingSearches(r) # {} =>
            /\ status[r] = "Running"
            /\ cursor[r] = "search-documents"
            /\ ~ENABLED SearchJoin(r)
            /\ ~InTrace(r, "analyze-results"))

\* the three sub-searches have settled, one of them failed, and the run has
\* gone on to suspend at human-approval
C30_Witness ==
    \E r \in RunIds :
        /\ status[r] = "Suspended"
        /\ ops[r].search["slack"] = "failed"
        /\ ops[r].search["github"] = "ok"
        /\ ops[r].search["google-drive"] = "ok"

====
